---------------------------- MODULE Spec2Model ----------------------------
(***************************************************************************)
(* A model of the ticktalk analytics services (src/analytics/main.py and   *)
(* src/analytics/context_api.py): the CME weekend-gap detector, the        *)
(* window resolver inside /api/vwap and /api/indicators, and the           *)
(* swing/level scanner and the imbalance scanner behind                    *)
(* /api/context/levels, and the indicator and VWAP computations; and of    *)
(* the upstream client every service carries (src/shared/client.py,        *)
(* src/data/main.py): the interval maps, _http_post's retries, the token   *)
(* cache of _auth_token, and the session slices of /api/context/levels.    *)
(*                                                                         *)
(* Instants are integers counting milliseconds from 00:00 UTC of a Monday  *)
(* (datetime.weekday() is 0 on Monday).  None is Python's None.            *)
(***************************************************************************)
EXTENDS Integers, Sequences, FiniteSets

VARIABLES
    now,        \* /hours: the clock reading datetime.now(timezone.utc)
    hours_resp, \* /hours: the response, or NoResp before the handler ran
    req,        \* /api/vwap, /api/indicators: the request being served
    eff,        \* the handler's eff_start, eff_end and windowAdjusted, or NoWindow
    resp,       \* /api/vwap, /api/indicators: the response, or NoResp
    upstream,   \* /api/vwap, /api/indicators: the upstream calls issued, in order
    feed,       \* /api/context/levels: which bar feed the upstream serves
    bars,       \* /api/context/levels: the 4h bars fetched (bars_h4)
    left,       \* the scanner's neighbour counts (2 and 2 in the handler)
    right,
    swings,     \* the handler's swings = _swing_points(bars_h4, left, right)
    breaches,   \* per swing, what _breached_after returned
    h4_levels,  \* the response's h4_untaken_levels
    levels_status, \* the response's HTTP status, 0 before the first request
    feed15,     \* /api/context/levels: which 15m bar feed the upstream serves
    bars_15,    \* /api/context/levels: the 15m bars fetched
    fvgs_all,   \* the handler's fvgs_all after the fills are marked
    open_fvgs,  \* the response's m15_open_fvgs
    length,     \* the length the indicators are asked for
    candles,    \* the bars retrieve_bars returned to /api/indicators or /api/vwap
    sma_out,    \* sma(series_close(candles), length), with the loop's running sums
    ema_out,    \* ema(series_close(candles), length)
    rsi_out,    \* rsi(series_close(candles), length), with the loop's averages
    vwap_out,   \* compute_vwap(candles)
    interval,   \* the interval or tf text a caller hands to an entry point
    bar_request, \* the entry point that served it and what it asked upstream
    retry_max,  \* _http_post: RETRY_MAX as configured
    attempt,    \* _http_post: the loop variable, 0 before the first attempt
    post_log,   \* _http_post: the requests posted and the sleeps taken, in order
    last_exc,   \* _http_post: the exception of the latest failed attempt
    post_result, \* _http_post: still looping, returned a response, or raised
    time_time,  \* time.time(), in half hours
    session_token,      \* the module's _session_token, None before a login
    token_expiry_epoch, \* the module's _token_expiry_epoch
    pc,         \* per thread: where its call of _auth_token stands
    call_now,   \* per thread: the local now of its call
    login_no,   \* per thread: which login its call posted, 0 for none
    ret,        \* per thread: the token its call returned, None otherwise
    logins,     \* the logins sent to /api/Auth/loginKey so far
    levels_req,    \* /api/context/levels: the symbol, contract and asOf given
    market,        \* the 15m bars the upstream holds
    levels_calls,  \* /api/context/levels: the upstream calls issued, in order
    levels_resp,   \* /api/context/levels: status and error, or NoResp
    m15_fetched,   \* the handler's bars_15 for the session part
    asian_15,      \* _slice(bars_15, asian_start, asian_end)
    london_15,     \* _slice(bars_15, london_start, london_end)
    m15_sessions,  \* the response's asian and london summaries
    since_prev_close, \* _slice(bars_15, prev_close_ct, asof_ct)
    m15_swings     \* _swing_points(since_prev_close, 2, 2)

windowVars == <<now, hours_resp, req, eff, resp, upstream>>
swingVars == <<feed, bars, left, right, swings, breaches, h4_levels, levels_status>>
m15Vars == <<feed15, bars_15, fvgs_all, open_fvgs>>
seriesVars == <<length, candles, sma_out, ema_out, rsi_out, vwap_out>>
intervalVars == <<interval, bar_request>>
retryVars == <<retry_max, attempt, post_log, last_exc, post_result>>
authVars == <<time_time, session_token, token_expiry_epoch, pc, call_now, login_no, ret,
             logins>>
sessionVars == <<levels_req, market, levels_calls, levels_resp, m15_fetched,
                asian_15, london_15, m15_sessions, since_prev_close, m15_swings>>
clientVars == <<intervalVars, retryVars, authVars, sessionVars>>
analyticsVars == <<windowVars, swingVars, m15Vars, seriesVars>>
vars == <<now, hours_resp, req, eff, resp, upstream,
          feed, bars, left, right, swings, breaches, h4_levels, levels_status,
          feed15, bars_15, fvgs_all, open_fvgs,
          length, candles, sma_out, ema_out, rsi_out, vwap_out,
          clientVars>>

None == -1

-----------------------------------------------------------------------------
(* Units of time.                                                          *)

MsPerSecond == 1000
MsPerMinute == 60 * MsPerSecond
MsPerHour == 60 * MsPerMinute
MsPerDay == 24 * MsPerHour

\* timedelta(days=d, hours=h, minutes=m)
timedelta(d, h, m) == d * MsPerDay + h * MsPerHour + m * MsPerMinute

\* dt.replace(hour=h, minute=0, second=0, microsecond=0)
replace_hour(dt, h) == (dt - (dt % MsPerDay)) + h * MsPerHour

\* dt.weekday(): Mon=0..Sun=6
weekday_of(dt) == (dt \div MsPerDay) % 7

\* fmt_iso_z: the text of the instant with its sub-second part dropped;
\* the text is identified with the instant it denotes.
fmt_iso_z(dt) == dt - (dt % MsPerSecond)

-----------------------------------------------------------------------------
(* The inputs the model draws from.                                        *)

\* The number of days modelled; day 0 is a Monday.
NumDays == 14

Days == 0 .. (NumDays - 1)

\* Times of day around the two boundaries of the weekend gap.
BoundaryTimes ==
    { 0, 1,
      20 * MsPerHour - 1, 20 * MsPerHour, 20 * MsPerHour + 1,
      22 * MsPerHour - 1, 22 * MsPerHour, 22 * MsPerHour + 1,
      MsPerDay - 1 }

ClockInstants == { d * MsPerDay + t : d \in Days, t \in BoundaryTimes }

-----------------------------------------------------------------------------
(* Weekend gap detector.                                                   *)

\* A detector whose boundary instants count as closed.
cme_weekend_status_inclusive(dt_utc) ==
    LET weekday == weekday_of(dt_utc)
        base == replace_hour(dt_utc, 0)
        days_to_fri == (4 - weekday) % 7
        friday0 == base + timedelta(days_to_fri, 0, 0)
        friday == IF dt_utc < friday0 THEN friday0 - timedelta(7, 0, 0) ELSE friday0
        fri_close == replace_hour(friday, 20)
        sun_open == replace_hour(fri_close + timedelta(2, 0, 0), 22)
        closed == (dt_utc >= fri_close) /\ (dt_utc <= sun_open)
    IN  [closed |-> closed, fridayClose |-> fri_close, sundayOpen |-> sun_open]

\* A detector that steps back a week whenever the instant precedes the close
\* of the Friday it found, not only when it precedes that Friday's midnight.
cme_weekend_status_early_friday(dt_utc) ==
    LET weekday == weekday_of(dt_utc)
        base == replace_hour(dt_utc, 0)
        days_to_fri == (4 - weekday) % 7
        friday0 == base + timedelta(days_to_fri, 0, 0)
        friday == IF dt_utc < replace_hour(friday0, 20)
                  THEN friday0 - timedelta(7, 0, 0) ELSE friday0
        fri_close == replace_hour(friday, 20)
        sun_open == replace_hour(fri_close + timedelta(2, 0, 0), 22)
        closed == (dt_utc > fri_close) /\ (dt_utc < sun_open)
    IN  [closed |-> closed, fridayClose |-> fri_close, sundayOpen |-> sun_open]

cme_weekend_status(dt_utc) ==
    LET weekday == weekday_of(dt_utc)
        base == replace_hour(dt_utc, 0)
        days_to_fri == (4 - weekday) % 7
        friday0 == base + timedelta(days_to_fri, 0, 0)
        friday == IF dt_utc < friday0 THEN friday0 - timedelta(7, 0, 0) ELSE friday0
        fri_close == replace_hour(friday, 20)
        sun_open == replace_hour(fri_close + timedelta(2, 0, 0), 22)
        closed == (dt_utc > fri_close) /\ (dt_utc < sun_open)
    IN  [closed |-> closed, fridayClose |-> fri_close, sundayOpen |-> sun_open]

NoResp == [status |-> 0]

\* GET /hours
hours ==
    /\ hours_resp = NoResp
    /\ LET st == cme_weekend_status(now)
       IN  hours_resp' = [status |-> 200,
                          now |-> fmt_iso_z(now),
                          closed |-> st.closed,
                          fridayClose |-> fmt_iso_z(st.fridayClose),
                          sundayOpen |-> fmt_iso_z(st.sundayOpen)]
    /\ UNCHANGED <<now, req, eff, resp, upstream>>
    /\ UNCHANGED <<swingVars, m15Vars, seriesVars>>
    /\ UNCHANGED clientVars

-----------------------------------------------------------------------------
(* Requests to /api/vwap and /api/indicators.                              *)

\* A query parameter that is not in the request (request.args.get gives None).
Absent == "<absent>"

\* A start or end parameter: absent, text parse_iso_z refuses, or the text
\* of an instant.
NoArg == [kind |-> "absent", t |-> 0]
BadArg == [kind |-> "bad", t |-> 0]
TimeArg(t) == [kind |-> "time", t |-> t]

\* Times of day of the requested end: before, at, inside and after the gap's
\* boundary hours, one of them with a sub-second part.
WindowTimes == { 12 * MsPerHour, 20 * MsPerHour, 20 * MsPerHour + 500, 22 * MsPerHour }
WindowDays == { d \in Days : d < 7 }
WindowEnds == { d * MsPerDay + t : d \in WindowDays, t \in WindowTimes }

\* Requested durations end - start: negative, sub-second, the default six
\* hours, exactly seven days and more than seven days.
Durations == { 0 - MsPerHour, 1500, 6 * MsPerHour, 7 * MsPerDay, 8 * MsPerDay }

Windows ==
    { [start |-> TimeArg(e - d), end |-> TimeArg(e)] : e \in WindowEnds, d \in Durations }
    \cup { [start |-> NoArg, end |-> NoArg],
           [start |-> BadArg, end |-> TimeArg(5 * MsPerDay + 12 * MsPerHour)],
           [start |-> TimeArg(5 * MsPerDay), end |-> BadArg] }

GuardArgs == { Absent, "on", "off" }
AutoArgs == { Absent, "", "true", "false" }
ModeArgs == { Absent, "weekly" }
\* The route after the live parameter has overridden it (lines 525-528).
RouteArgs == { "auto", "live", "nonlive" }
\* The sma/ema/rsi parameters: none given, lengths given, or text int() refuses.
IndicatorArgs == { "none", "lengths", "bad" }

\* The clock the handler reads: five minutes or one hour after the requested
\* end when an end is given, any modelled end (plus 321 ms) otherwise.
Clocks(r) ==
    IF r.end.kind = "time"
    THEN IF r.route = "auto"
         THEN { r.end.t + timedelta(0, 0, 5), r.end.t + timedelta(0, 1, 0) }
         ELSE { r.end.t + timedelta(0, 0, 5) }
    ELSE { e + 321 : e \in WindowEnds }

\* The requests a client sends.  /api/vwap reads no indicator lengths and
\* /api/indicators reads no mode; a request to /api/indicators that names no
\* usable length is answered before its window is read, so one window stands
\* for all of them.
Requests ==
    { [handler |-> "vwap", start |-> w.start, end |-> w.end, guard |-> g,
       auto_window |-> a, mode |-> m, route |-> r, indicators |-> "none"] :
      w \in Windows, g \in GuardArgs, a \in AutoArgs, m \in ModeArgs, r \in RouteArgs }
    \cup
    { [handler |-> "indicators", start |-> w.start, end |-> w.end, guard |-> g,
       auto_window |-> a, mode |-> Absent, route |-> r, indicators |-> "lengths"] :
      w \in Windows, g \in GuardArgs, a \in AutoArgs, r \in RouteArgs }
    \cup
    { [handler |-> "indicators", start |-> NoArg, end |-> NoArg, guard |-> g,
       auto_window |-> a, mode |-> Absent, route |-> "auto", indicators |-> i] :
      g \in GuardArgs, a \in AutoArgs, i \in IndicatorArgs \ {"lengths"} }

\* No request is being served (the /hours handler takes no parameters).
NoRequest == [handler |-> "none"]

\* What the upstream API answers to a contract search and to a bar fetch,
\* after _http_post's retries: a result, nothing, an HTTP error status
\* (requests.HTTPError) or a network failure (another exception).
ResolveOutcomes == { "cid", "none", "http_error", "net_error" }
BarsOutcomes == { "bars", "empty", "http_error", "net_error" }

\* One request's upstream answers: the contract search, the bar fetch and the
\* non-live bar fetch that follows an empty live one.  A fetch is named only
\* when the search before it found a contract (the handler stops otherwise).
UpstreamAnswers ==
    { [resolve |-> rc, bars |-> b1, bars_nonlive |-> b2] :
      rc \in ResolveOutcomes, b1 \in BarsOutcomes, b2 \in BarsOutcomes }
IssuedAnswers ==
    { a \in UpstreamAnswers :
        /\ a.resolve # "cid" => a.bars = "empty" /\ a.bars_nonlive = "empty"
        /\ a.bars # "empty" => a.bars_nonlive = "empty" }

-----------------------------------------------------------------------------
(* Window resolver and the two handlers that use it.                       *)

Min(a, b) == IF a <= b THEN a ELSE b
Max(a, b) == IF a >= b THEN a ELSE b

\* Python's (x or d) on a query parameter.
OrDefault(x, d) == IF x = Absent \/ x = "" THEN d ELSE x

\* _decide_route: live when the end is within AUTO_LIVE_FRESH_MINUTES of now.
AUTO_LIVE_FRESH_MINUTES == 10
decide_route(end_dt, clock) == end_dt >= clock - timedelta(0, 0, AUTO_LIVE_FRESH_MINUTES)

\* A clip that keeps the requested duration without the seven-day cap.
clip_for_weekend_uncapped(req_start_dt, req_end_dt, status) ==
    IF status.closed
    THEN LET new_end == Min(status.fridayClose, req_end_dt)
         IN  [start |-> new_end - (req_end_dt - req_start_dt), end |-> new_end,
              clipped |-> TRUE]
    ELSE [start |-> req_start_dt, end |-> req_end_dt, clipped |-> FALSE]

clip_for_weekend(req_start_dt, req_end_dt, status) ==
    IF status.closed
    THEN LET new_end == Min(status.fridayClose, req_end_dt)
             new_start == Max(new_end - (req_end_dt - req_start_dt),
                              new_end - timedelta(7, 0, 0))
         IN  [start |-> new_start, end |-> new_end, clipped |-> TRUE]
    ELSE [start |-> req_start_dt, end |-> req_end_dt, clipped |-> FALSE]

\* A guard that is off unless the request turns it on.
guard_on_default_off(r) == OrDefault(r.guard, "off") # "off"

guard_on(r) == OrDefault(r.guard, "on") # "off"

\* auto_window read from the parameter alone, with no default for a closed
\* market.
auto_window_as_given(r, status) ==
    OrDefault(r.auto_window,
              IF r.handler = "vwap" /\ r.mode = "weekly" THEN "true" ELSE "false") = "true"

\* auto_window as each handler settles it before the weekend guard.
auto_window(r, status) ==
    IF r.handler = "vwap"
    THEN OrDefault(r.auto_window, IF r.mode = "weekly" THEN "true" ELSE "false") = "true"
    ELSE IF status.closed /\ r.auto_window = Absent
         THEN TRUE
         ELSE OrDefault(r.auto_window, "false") = "true"

\* The start and end texts after the default window has been filled in.
window_args(r, clock) ==
    IF r.start.kind = "absent" \/ r.end.kind = "absent"
    THEN LET end_dt == clock
             start_dt == IF r.handler = "vwap" /\ r.mode = "weekly"
                         THEN end_dt - timedelta(7, 0, 0)
                         ELSE clock - timedelta(0, 6, 0)
         IN  [start |-> TimeArg(fmt_iso_z(start_dt)), end |-> TimeArg(fmt_iso_z(end_dt))]
    ELSE [start |-> r.start, end |-> r.end]

Failure(code, text) == [status |-> code, error |-> text]

\* The handler has not reached the weekend guard.
NoWindow == [reached |-> FALSE]

\* From resolve_contract to the response: the part both handlers share.
fetch_and_answer(r, req_start_dt, req_end_dt, w, effective_live, rc, b1, b2) ==
    LET resolve == [op |-> "resolve", live |-> effective_live, answer |-> rc]
        fetch(live, b) == [op |-> "bars", start |-> fmt_iso_z(w.start),
                           end |-> fmt_iso_z(w.end), live |-> live, answer |-> b]
        retry == b1 = "empty" /\ effective_live
        got == IF retry THEN b2 ELSE b1
        calls == IF retry THEN <<resolve, fetch(effective_live, b1), fetch(FALSE, b2)>>
                 ELSE <<resolve, fetch(effective_live, b1)>>
    IN  IF rc = "http_error"
        THEN [resp |-> Failure(502, "upstream_failed"), upstream |-> <<resolve>>]
        ELSE IF rc = "net_error"
        THEN [resp |-> Failure(500, "exception"), upstream |-> <<resolve>>]
        ELSE IF rc = "none"
        THEN [resp |-> Failure(400, "Could not resolve contract"), upstream |-> <<resolve>>]
        ELSE IF b1 = "http_error"
        THEN [resp |-> Failure(502, "upstream_failed"),
              upstream |-> <<resolve, fetch(effective_live, b1)>>]
        ELSE IF b1 = "net_error"
        THEN [resp |-> Failure(500, "exception"),
              upstream |-> <<resolve, fetch(effective_live, b1)>>]
        ELSE IF got = "http_error"
        THEN [resp |-> Failure(502, "upstream_failed"), upstream |-> calls]
        ELSE IF got = "net_error"
        THEN [resp |-> Failure(500, "exception"), upstream |-> calls]
        ELSE IF got = "empty"
        THEN [resp |-> Failure(404, "No bars returned"), upstream |-> calls]
        ELSE [resp |-> [status |-> 200,
                        route |-> r.route,
                        live |-> effective_live,
                        requestedStart |-> fmt_iso_z(req_start_dt),
                        requestedEnd |-> fmt_iso_z(req_end_dt),
                        effectiveStart |-> fmt_iso_z(w.start),
                        effectiveEnd |-> fmt_iso_z(w.end),
                        windowAdjustedForClosure |-> w.adjusted],
              upstream |-> calls]

\* A guard block that clips whenever auto_window is set, closed or not.
weekend_guard_ignores_status(guard, auto, req_start_dt, req_end_dt, status, routed) ==
    LET asked == [reached |-> TRUE, start |-> req_start_dt, end |-> req_end_dt,
                  adjusted |-> FALSE]
        new_end == Min(status.fridayClose, req_end_dt)
        new_start == Max(new_end - (req_end_dt - req_start_dt),
                         new_end - timedelta(7, 0, 0))
    IN  IF auto
        THEN [rejected |-> FALSE,
              window |-> [reached |-> TRUE, start |-> new_start, end |-> new_end,
                          adjusted |-> TRUE],
              live |-> FALSE]
        ELSE IF status.closed /\ guard
        THEN [rejected |-> TRUE, window |-> asked, live |-> routed]
        ELSE [rejected |-> FALSE, window |-> asked, live |-> routed]

\* A guard block that clips every closed window it does not reject.
weekend_guard_clips_unasked(guard, auto, req_start_dt, req_end_dt, status, routed) ==
    LET asked == [reached |-> TRUE, start |-> req_start_dt, end |-> req_end_dt,
                  adjusted |-> FALSE]
        c == clip_for_weekend(req_start_dt, req_end_dt, status)
    IN  IF status.closed
        THEN IF guard /\ ~auto
             THEN [rejected |-> TRUE, window |-> asked, live |-> routed]
             ELSE [rejected |-> FALSE,
                   window |-> [reached |-> TRUE, start |-> c.start, end |-> c.end,
                               adjusted |-> c.clipped],
                   live |-> FALSE]
        ELSE [rejected |-> FALSE, window |-> asked, live |-> routed]

\* The "weekend guard" block of both handlers: whether the request is
\* rejected, the effective window and the effective route.
weekend_guard(guard, auto, req_start_dt, req_end_dt, status, routed) ==
    LET asked == [reached |-> TRUE, start |-> req_start_dt, end |-> req_end_dt,
                  adjusted |-> FALSE]
    IN  IF status.closed
        THEN IF guard /\ ~auto
             THEN [rejected |-> TRUE, window |-> asked, live |-> routed]
             ELSE IF auto
             THEN LET c == clip_for_weekend(req_start_dt, req_end_dt, status)
                  IN  [rejected |-> FALSE,
                       window |-> [reached |-> TRUE, start |-> c.start, end |-> c.end,
                                   adjusted |-> c.clipped],
                       live |-> FALSE]
             ELSE [rejected |-> FALSE, window |-> asked, live |-> routed]
        ELSE [rejected |-> FALSE, window |-> asked, live |-> routed]

\* The body of api_vwap and of api_indicators from the window parameters on.
serve_window(r, clock, rc, b1, b2) ==
    LET w == window_args(r, clock)
    IN  IF w.start.kind = "bad" \/ w.end.kind = "bad"
        THEN [resp |-> Failure(500, "Invalid ISO Z time"), upstream |-> <<>>,
              eff |-> NoWindow]
        ELSE
        LET req_start_dt == w.start.t
            req_end_dt == w.end.t
            status == cme_weekend_status(req_end_dt)
            routed == IF r.route = "live" THEN TRUE
                      ELSE IF r.route = "nonlive" THEN FALSE
                      ELSE decide_route(req_end_dt, clock)
            g == weekend_guard(guard_on(r), auto_window(r, status),
                               req_start_dt, req_end_dt, status, routed)
        IN  IF g.rejected
            THEN [resp |-> IF r.handler = "vwap"
                           THEN [status |-> 409,
                                 error |-> "Market likely closed (CME weekend gap).",
                                 requestedStart |-> fmt_iso_z(req_start_dt),
                                 requestedEnd |-> fmt_iso_z(req_end_dt),
                                 fridayClose |-> fmt_iso_z(status.fridayClose),
                                 sundayOpen |-> fmt_iso_z(status.sundayOpen)]
                           ELSE Failure(409, "Market likely closed (CME weekend gap)."),
                  upstream |-> <<>>,
                  eff |-> g.window]
            ELSE LET out == fetch_and_answer(r, req_start_dt, req_end_dt, g.window,
                                             g.live, rc, b1, b2)
                 IN  [resp |-> out.resp, upstream |-> out.upstream, eff |-> g.window]

\* GET /api/vwap
api_vwap ==
    /\ req.handler = "vwap"
    /\ resp = NoResp
    /\ \E a \in IssuedAnswers :
         LET out == serve_window(req, now, a.resolve, a.bars, a.bars_nonlive)
         IN  /\ resp' = out.resp
             /\ upstream' = out.upstream
             /\ eff' = out.eff
    /\ UNCHANGED <<now, hours_resp, req>>
    /\ UNCHANGED <<swingVars, m15Vars, seriesVars>>
    /\ UNCHANGED clientVars

\* GET /api/indicators
api_indicators ==
    /\ req.handler = "indicators"
    /\ resp = NoResp
    /\ \E a \in IssuedAnswers :
         LET out == IF req.indicators = "bad"
                    THEN [resp |-> Failure(500, "invalid literal for int()"),
                          upstream |-> <<>>, eff |-> NoWindow]
                    ELSE IF req.indicators = "none"
                    THEN [resp |-> Failure(400, "Specify at least one indicator: sma, ema, rsi"),
                          upstream |-> <<>>, eff |-> NoWindow]
                    ELSE serve_window(req, now, a.resolve, a.bars, a.bars_nonlive)
         IN  /\ resp' = out.resp
             /\ upstream' = out.upstream
             /\ eff' = out.eff
    /\ UNCHANGED <<now, hours_resp, req>>
    /\ UNCHANGED <<swingVars, m15Vars, seriesVars>>
    /\ UNCHANGED clientVars

-----------------------------------------------------------------------------
(* Intervals: the INTERVAL_MAP of each service and the entry points that   *)
(* turn an interval text into the (unit, unitNumber) of a bar request.     *)

Pair(u, n) == [unit |-> u, unitNumber |-> n]

\* INTERVAL_MAP of src/data/main.py and src/shared/client.py, as the set of
\* its items.
INTERVAL_MAP_data ==
    { <<"1s", Pair(1, 1)>>, <<"5s", Pair(1, 5)>>, <<"15s", Pair(1, 15)>>,
      <<"30s", Pair(1, 30)>>,
      <<"1m", Pair(2, 1)>>, <<"2m", Pair(2, 2)>>, <<"3m", Pair(2, 3)>>,
      <<"5m", Pair(2, 5)>>, <<"15m", Pair(2, 15)>>, <<"30m", Pair(2, 30)>>,
      <<"1h", Pair(3, 1)>>, <<"2h", Pair(3, 2)>>, <<"4h", Pair(3, 4)>>,
      <<"1d", Pair(4, 1)>>, <<"1w", Pair(5, 1)>>, <<"1M", Pair(6, 1)>> }

\* INTERVAL_MAP of src/analytics/main.py.
INTERVAL_MAP ==
    { <<"1m", Pair(2, 1)>>, <<"2m", Pair(2, 2)>>, <<"3m", Pair(2, 3)>>,
      <<"5m", Pair(2, 5)>>, <<"15m", Pair(2, 15)>>, <<"30m", Pair(2, 30)>>,
      <<"1h", Pair(3, 1)>>, <<"4h", Pair(3, 4)>>, <<"1d", Pair(4, 1)>> }

\* INTERVAL_MAP of src/analytics/context_api.py.
INTERVAL_MAP_context ==
    { <<"1m", Pair(2, 1)>>, <<"2m", Pair(2, 2)>>, <<"5m", Pair(2, 5)>>,
      <<"15m", Pair(2, 15)>>, <<"30m", Pair(2, 30)>>,
      <<"1h", Pair(3, 1)>>, <<"2h", Pair(3, 2)>>, <<"4h", Pair(3, 4)>>,
      <<"1d", Pair(4, 1)>> }

\* key in map, and map[key]
Has(map, key) == \E item \in map : item[1] = key
Get(map, key) == (CHOOSE item \in map : item[1] = key)[2]

\* The interval texts callers send: the sixteen names of the full map, names
\* no map has, upper-case spellings, the empty text and no parameter at all.
Intervals ==
    { item[1] : item \in INTERVAL_MAP_data }
    \cup { "7m", "10s", "1H", "4H", "", Absent }

\* str.lower() on the modelled texts.
str_lower(text) ==
    IF text = "1M" THEN "1m"
    ELSE IF text = "1H" THEN "1h"
    ELSE IF text = "4H" THEN "4h"
    ELSE text

DEFAULT_INTERVAL == "1m"

\* _interval_to_unit with a lookup that finds every name of the full map.
interval_to_unit_full_map(text) ==
    LET key == OrDefault(text, DEFAULT_INTERVAL)
    IN  IF Has(INTERVAL_MAP_data, key) THEN Get(INTERVAL_MAP_data, key)
        ELSE Pair(2, 1)

\* _interval_to_unit of src/analytics/main.py
interval_to_unit(text) ==
    LET key == str_lower(OrDefault(text, DEFAULT_INTERVAL))
    IN  IF Has(INTERVAL_MAP, key) THEN Get(INTERVAL_MAP, key) ELSE Pair(2, 1)

\* What an entry point did with the interval: the bars it asked the upstream
\* for, or the error it raised before asking.
NoBarRequest == [entry |-> "none", outcome |-> "none", pair |-> Pair(0, 0)]
RequestedBars(entry, pair) == [entry |-> entry, outcome |-> "bars", pair |-> pair]
Unsupported(entry) == [entry |-> entry, outcome |-> "unsupported", pair |-> Pair(0, 0)]

\* _retrieve_bars of a service whose map is given: the membership test and
\* the lookup before the request is posted.
retrieve_bars_with(map, entry, text) ==
    IF ~Has(map, text) THEN Unsupported(entry)
    ELSE RequestedBars(entry, Get(map, text))

\* /api/vwap and /api/indicators of the analytics service, once the contract
\* is resolved: the pair comes from _interval_to_unit and bars are fetched.
analytics_interval ==
    /\ bar_request = NoBarRequest
    /\ \E entry \in {"/api/vwap", "/api/indicators"} :
         bar_request' = RequestedBars(entry, interval_to_unit(interval))
    /\ UNCHANGED interval
    /\ UNCHANGED analyticsVars
    /\ UNCHANGED retryVars
    /\ UNCHANGED authVars
    /\ UNCHANGED sessionVars

\* /api/bars of the data service: tf defaults to "15m", is refused with 400
\* when the map has no such key, and is mapped by _retrieve_bars otherwise.
api_bars ==
    /\ bar_request = NoBarRequest
    /\ LET tf == IF interval = Absent THEN "15m" ELSE interval
       IN  bar_request' = retrieve_bars_with(INTERVAL_MAP_data, "/api/bars", tf)
    /\ UNCHANGED interval
    /\ UNCHANGED analyticsVars
    /\ UNCHANGED retryVars
    /\ UNCHANGED authVars
    /\ UNCHANGED sessionVars

\* retrieve_bars of src/shared/client.py, called with an interval.
retrieve_bars ==
    /\ bar_request = NoBarRequest
    /\ interval # Absent
    /\ bar_request' = retrieve_bars_with(INTERVAL_MAP_data, "retrieve_bars", interval)
    /\ UNCHANGED interval
    /\ UNCHANGED analyticsVars
    /\ UNCHANGED retryVars
    /\ UNCHANGED authVars
    /\ UNCHANGED sessionVars

\* _retrieve_bars of src/analytics/context_api.py, called with an interval.
context_retrieve_bars ==
    /\ bar_request = NoBarRequest
    /\ interval # Absent
    /\ bar_request' = retrieve_bars_with(INTERVAL_MAP_context, "context_api", interval)
    /\ UNCHANGED interval
    /\ UNCHANGED analyticsVars
    /\ UNCHANGED retryVars
    /\ UNCHANGED authVars
    /\ UNCHANGED sessionVars

IdleInterval ==
    /\ interval = DEFAULT_INTERVAL
    /\ bar_request = NoBarRequest


-----------------------------------------------------------------------------
(* _http_post: one POST with retries (the same code in all four services). *)

\* RETRY_BACKOFF, 0.5 seconds by default, in milliseconds.
RETRY_BACKOFF == 500

\* What one requests.post does: it returns a response with a status code, or
\* it raises (no connection, timeout).
Response(code) == [kind |-> "response", code |-> code]
Raised(name) == [kind |-> name, code |-> 0]
NoOutcome == [kind |-> "none", code |-> 0]
PostOutcomes ==
    { Response(c) : c \in {200, 399, 400, 500} }
    \cup { Raised("ConnectionError"), Raised("Timeout") }

\* The exception the try block ends with: requests.HTTPError for a status of
\* 400 or more, the exception requests.post raised otherwise.
exception_of(o) ==
    IF o.kind = "response" THEN [kind |-> "HTTPError", code |-> o.code] ELSE o

\* The loop's test before time.sleep, were it to hold on the last attempt too.
backs_off_always(n, max) == n <= max

\* The loop's test before time.sleep: attempt < RETRY_MAX.
backs_off(n, max) == n < max

Looping == [state |-> "looping", with |-> NoOutcome]

\* One iteration of the for loop, with what follows the loop when it is the
\* last one: the request is posted; a status below 400 is returned; any
\* other outcome is kept in last_exc, slept on between attempts, and raised
\* when the loop has run RETRY_MAX times.
http_post_attempt ==
    /\ post_result = Looping
    /\ attempt < retry_max
    /\ attempt' = attempt + 1
    /\ \E o \in PostOutcomes :
         LET posted == Append(post_log, [ev |-> "post", n |-> attempt', got |-> o])
         IN  IF o.kind = "response" /\ o.code < 400
             THEN /\ post_log' = posted
                  /\ post_result' = [state |-> "returned", with |-> o]
                  /\ UNCHANGED last_exc
             ELSE /\ last_exc' = exception_of(o)
                  /\ post_log' =
                       IF backs_off(attempt', retry_max)
                       THEN Append(posted, [ev |-> "sleep", n |-> attempt',
                                            ms |-> RETRY_BACKOFF * attempt'])
                       ELSE posted
                  /\ post_result' =
                       IF attempt' < retry_max THEN Looping
                       ELSE [state |-> "raised", with |-> last_exc']
    /\ UNCHANGED retry_max
    /\ UNCHANGED analyticsVars
    /\ UNCHANGED intervalVars
    /\ UNCHANGED authVars
    /\ UNCHANGED sessionVars

IdleRetry ==
    /\ retry_max = 1
    /\ attempt = 0
    /\ post_log = <<>>
    /\ last_exc = NoOutcome
    /\ post_result = Looping

-----------------------------------------------------------------------------
(* _auth_token: the token cache shared by the threads that serve requests. *)

\* 23.5 * 3600 seconds, in half hours.
TOKEN_TTL == 47

\* The threads of the server that may be inside _auth_token at once.
MaxThreads == 2
Threads == 1 .. MaxThreads

\* time.time() moves on by 11.5 or 12 hours at a time, so that a reading
\* falls before, exactly on and after an expiry; it stops at MaxClock.
MaxClock == 50
Ticks == { 23, 24 }

\* The logins the model follows.
MaxLogins == 2

\* What /api/Auth/loginKey answers once _http_post is done: a token (the
\* n-th login is given token n), a body without a token, or the failure
\* _http_post raises.
LoginAnswers == { "token", "no_token", "failed" }

\* The cache test, were it to trust any cached token whatever its expiry.
cache_valid_forever(token, t, expiry) == token # None

\* if _session_token and now < _token_expiry_epoch
cache_valid(token, t, expiry) == token # None /\ t < expiry

\* time.time() between two statements of any thread.
tick ==
    /\ \E d \in Ticks :
         /\ time_time + d <= MaxClock
         /\ time_time' = time_time + d
    /\ UNCHANGED <<session_token, token_expiry_epoch, pc, call_now, login_no, ret, logins>>
    /\ UNCHANGED analyticsVars
    /\ UNCHANGED intervalVars
    /\ UNCHANGED retryVars
    /\ UNCHANGED sessionVars

\* A thread calls _auth_token: it reads the time_time and the cache; a valid
\* cached token is returned, otherwise the login is posted.
auth_token_call(t) ==
    /\ pc[t] = "idle"
    /\ call_now' = [call_now EXCEPT ![t] = time_time]
    /\ IF cache_valid(session_token, time_time, token_expiry_epoch)
       THEN /\ pc' = [pc EXCEPT ![t] = "returned"]
            /\ ret' = [ret EXCEPT ![t] = session_token]
            /\ UNCHANGED <<logins, login_no>>
       ELSE /\ logins < MaxLogins
            /\ pc' = [pc EXCEPT ![t] = "login"]
            /\ ret' = [ret EXCEPT ![t] = None]
            /\ logins' = logins + 1
            /\ login_no' = [login_no EXCEPT ![t] = logins']
    /\ UNCHANGED <<time_time, session_token, token_expiry_epoch>>
    /\ UNCHANGED analyticsVars
    /\ UNCHANGED intervalVars
    /\ UNCHANGED retryVars
    /\ UNCHANGED sessionVars

\* The login is answered: without a token, or when _http_post raised, the
\* call raises; with a token the thread assigns _session_token.
auth_token_answer(t) ==
    /\ pc[t] = "login"
    /\ \E answer \in LoginAnswers :
         IF answer = "token"
         THEN /\ session_token' = login_no[t]
              /\ pc' = [pc EXCEPT ![t] = "token_stored"]
         ELSE /\ pc' = [pc EXCEPT ![t] = "raised"]
              /\ UNCHANGED session_token
    /\ UNCHANGED <<time_time, token_expiry_epoch, call_now, login_no, ret, logins>>
    /\ UNCHANGED analyticsVars
    /\ UNCHANGED intervalVars
    /\ UNCHANGED retryVars
    /\ UNCHANGED sessionVars

\* The thread assigns _token_expiry_epoch = now + 23.5 * 3600 and returns
\* _session_token as it is at that moment.
auth_token_store_expiry(t) ==
    /\ pc[t] = "token_stored"
    /\ token_expiry_epoch' = call_now[t] + TOKEN_TTL
    /\ ret' = [ret EXCEPT ![t] = session_token]
    /\ pc' = [pc EXCEPT ![t] = "returned"]
    /\ UNCHANGED <<time_time, session_token, call_now, login_no, logins>>
    /\ UNCHANGED analyticsVars
    /\ UNCHANGED intervalVars
    /\ UNCHANGED retryVars
    /\ UNCHANGED sessionVars

\* The call is over; the thread is free for its next request.
auth_token_end(t) ==
    /\ pc[t] \in {"returned", "raised"}
    /\ pc' = [pc EXCEPT ![t] = "idle"]
    /\ ret' = [ret EXCEPT ![t] = None]
    /\ call_now' = [call_now EXCEPT ![t] = 0]
    /\ login_no' = [login_no EXCEPT ![t] = 0]
    /\ UNCHANGED <<time_time, session_token, token_expiry_epoch, logins>>
    /\ UNCHANGED analyticsVars
    /\ UNCHANGED intervalVars
    /\ UNCHANGED retryVars
    /\ UNCHANGED sessionVars

\* The module as imported: no token, _token_expiry_epoch = 0.0.
IdleAuth ==
    /\ time_time = 1
    /\ session_token = None
    /\ token_expiry_epoch = 0
    /\ pc = [t \in Threads |-> "idle"]
    /\ call_now = [t \in Threads |-> 0]
    /\ login_no = [t \in Threads |-> 0]
    /\ ret = [t \in Threads |-> None]
    /\ logins = 0

\* _hl(bars) returned None.
NoSummary == [count |-> 0]

IdleSessions ==
    /\ levels_req = [symbol |-> FALSE, contract |-> FALSE, asOf |-> NoArg]
    /\ market = {}
    /\ levels_calls = <<>>
    /\ levels_resp = NoResp
    /\ m15_fetched = <<>>
    /\ asian_15 = <<>>
    /\ london_15 = <<>>
    /\ m15_sessions = [asian |-> NoSummary, london |-> NoSummary]
    /\ since_prev_close = <<>>
    /\ m15_swings = <<>>

IdleClient ==
    /\ IdleInterval
    /\ IdleRetry
    /\ IdleAuth
    /\ IdleSessions

-----------------------------------------------------------------------------
(* Initial states.                                                         *)

\* No request to /api/context/levels has been served.
IdleLevels ==
    /\ feed = "example"
    /\ bars = <<>>
    /\ left = 2
    /\ right = 2
    /\ swings = <<>>
    /\ breaches = <<>>
    /\ h4_levels = <<>>
    /\ levels_status = 0

IdleM15 ==
    /\ feed15 = "ranges"
    /\ bars_15 = <<>>
    /\ fvgs_all = <<>>
    /\ open_fvgs = <<>>

IdleSeries ==
    /\ length = 1
    /\ candles = <<>>
    /\ sma_out = [out |-> <<>>, sums |-> <<>>]
    /\ ema_out = <<>>
    /\ rsi_out = [out |-> <<>>, ag |-> <<>>, al |-> <<>>]
    /\ vwap_out = [final |-> [n |-> 0, d |-> 1], series |-> <<>>, count |-> 0]

InitWindow ==
    /\ req \in Requests
    /\ now \in Clocks(req)
    /\ hours_resp = NoResp
    /\ eff = NoWindow
    /\ resp = NoResp
    /\ upstream = <<>>
    /\ IdleLevels
    /\ IdleM15
    /\ IdleSeries
    /\ IdleClient

NextWindow == api_vwap \/ api_indicators

SpecWindow == InitWindow /\ [][NextWindow]_vars

InitHours ==
    /\ now \in ClockInstants
    /\ hours_resp = NoResp
    /\ req = NoRequest
    /\ eff = NoWindow
    /\ resp = NoResp
    /\ upstream = <<>>
    /\ IdleLevels
    /\ IdleM15
    /\ IdleSeries
    /\ IdleClient

NextHours == hours

SpecHours == InitHours /\ [][NextHours]_vars

-----------------------------------------------------------------------------
(* Swing/level scanner of /api/context/levels (context_api.py).            *)

\* Bars are records [t, h, l] as _retrieve_bars builds them: h and l are a
\* price or None.  A price is a whole number of price units; a feed's price
\* unit is a whole number of 1e-9, the grain of the breach epsilon.

\* The breach epsilon 1e-9, in units of 1e-9.
EPS == 1

\* The example feed quotes prices in tenths; the other feeds quote them in
\* steps of 1e-9, so that neighbouring prices differ by exactly the epsilon.
price_unit(f) == IF f = "example" THEN 100 * 1000 * 1000 ELSE 1

\* A comparison without the epsilon's margin: a >= b + 1e-9.
exceeds_or_reaches(f, a, b) == a - b >= EPS \div price_unit(f)

\* a > b + 1e-9 for prices a, b of feed f: (a - b) * unit > EPS, and a - b
\* is a whole number.
exceeds(f, a, b) == a - b > EPS \div price_unit(f)

\* Python's s[i] on a list: indices count from 0.
At(s, i) == s[i + 1]

\* The neighbours of index i in the order the two generator expressions
\* visit them: i-1 .. i-left, then i+1 .. i+right.
neighbours(i, l, r) ==
    [k \in 1 .. (l + r) |-> IF k <= l THEN i - k ELSE i + (k - l)]

\* The comparisons made strict: > for the highs, < for the lows.
RECURSIVE compare_all_strict(_, _, _, _, _)
compare_all_strict(bs, i, order, f, k) ==
    IF k > Len(order) THEN "true"
    ELSE LET own == At(bs, i)[f]
             other == At(bs, order[k])[f]
         IN  IF own = None \/ other = None THEN "raise"
             ELSE IF f = "h" /\ ~(own > other) THEN "false"
             ELSE IF f = "l" /\ ~(own < other) THEN "false"
             ELSE compare_all_strict(bs, i, order, f, k + 1)

\* all(bars[i][f] >= bars[n][f] for n in order) for f = "h" (<= for "l"),
\* evaluated as Python does: comparisons are made one by one, the first that
\* fails ends the evaluation with False, and one that meets None raises.
RECURSIVE compare_all(_, _, _, _, _)
compare_all(bs, i, order, f, k) ==
    IF k > Len(order) THEN "true"
    ELSE LET own == At(bs, i)[f]
             other == At(bs, order[k])[f]
         IN  IF own = None \/ other = None THEN "raise"
             ELSE IF f = "h" /\ ~(own >= other) THEN "false"
             ELSE IF f = "l" /\ ~(own <= other) THEN "false"
             ELSE compare_all(bs, i, order, f, k + 1)

\* The body of _swing_points' loop for index i: the swings it appends.
swings_at(bs, i, l, r) ==
    LET order == neighbours(i, l, r)
        hi == compare_all(bs, i, order, "h", 1)
        lo == compare_all(bs, i, order, "l", 1)
        high == [type |-> "swing_high", idx |-> i, price |-> At(bs, i).h,
                 time |-> At(bs, i).t]
        low == [type |-> "swing_low", idx |-> i, price |-> At(bs, i).l,
                time |-> At(bs, i).t]
    IN  IF hi = "raise" THEN <<>>
        ELSE IF lo = "raise" THEN <<>>
        ELSE (IF hi = "true" THEN <<high>> ELSE <<>>)
             \o (IF lo = "true" THEN <<low>> ELSE <<>>)

RECURSIVE swing_points_from(_, _, _, _)
swing_points_from(bs, l, r, i) ==
    IF i >= Len(bs) - r THEN <<>>
    ELSE swings_at(bs, i, l, r) \o swing_points_from(bs, l, r, i + 1)

\* A scan that runs to the last bar: for i in range(left, n), looking only
\* at the neighbours that exist.
swing_points_to_last_bar(bs, l, r) ==
    swing_points_from(bs, l, r, l)
        \o (IF r > 0 /\ Len(bs) > l
            THEN swings_at(bs, Len(bs) - 1, l, 0) ELSE <<>>)

\* _swing_points(bars, left, right): for i in range(left, n - right)
swing_points(bs, l, r) == swing_points_from(bs, l, r, l)

NotBreached == [taken |-> FALSE, at |-> None, raised |-> FALSE]

\* _breached_after's loop from index j on.  level_price + 1e-9 raises a
\* TypeError when the level's price is None and the bar's field is not.
RECURSIVE breached_from(_, _, _, _, _)
breached_from(f, bs, level_price, breach_type, j) ==
    IF j >= Len(bs) THEN NotBreached
    ELSE LET h == At(bs, j).h
             lw == At(bs, j).l
         IN  IF breach_type = "swing_high" /\ h # None
             THEN IF level_price = None
                  THEN [taken |-> FALSE, at |-> None, raised |-> TRUE]
                  ELSE IF exceeds(f, h, level_price)
                  THEN [taken |-> TRUE, at |-> At(bs, j).t, raised |-> FALSE]
                  ELSE breached_from(f, bs, level_price, breach_type, j + 1)
             ELSE IF breach_type = "swing_low" /\ lw # None
             THEN IF level_price = None
                  THEN [taken |-> FALSE, at |-> None, raised |-> TRUE]
                  ELSE IF exceeds(f, level_price, lw)
                  THEN [taken |-> TRUE, at |-> At(bs, j).t, raised |-> FALSE]
                  ELSE breached_from(f, bs, level_price, breach_type, j + 1)
             ELSE breached_from(f, bs, level_price, breach_type, j + 1)

\* A breach test that looks at the newest bar only.
breached_at_latest(f, bs, level_price, start_idx, breach_type) ==
    breached_from(f, bs, level_price, breach_type, Max(start_idx + 1, Len(bs) - 1))

\* _breached_after(bars, level_price, start_idx, breach_type)
breached_after(f, bs, level_price, start_idx, breach_type) ==
    breached_from(f, bs, level_price, breach_type, start_idx + 1)

\* The handler's loop over the swings: each swing's breach result.
breaches_of(f, bs, sw) ==
    [k \in DOMAIN sw |-> breached_after(f, bs, sw[k].price, sw[k].idx, sw[k].type)]

\* The subsequence of the untaken swings, as the response lists them.
RECURSIVE untaken_levels(_, _, _)
untaken_levels(sw, br, k) ==
    IF k > Len(sw) THEN <<>>
    ELSE (IF br[k].taken THEN <<>>
          ELSE <<[type |-> sw[k].type, price |-> sw[k].price,
                  formed_at |-> sw[k].time, untaken |-> TRUE]>>)
         \o untaken_levels(sw, br, k + 1)

\* The longest bar sequence the upstream serves.
MaxBars == 5

\* The neighbour counts the scanner is run with.
MaxNeighbours == 2

\* Prices of the feeds that quote in steps of 1e-9.  A price is positive: a
\* zero in the upstream's bar is read as a missing field (b.get("h") or ...).
MaxPrice == 3
Prices == 1 .. MaxPrice

\* The feed "highs" varies the highs over a flat low, the feed "lows" varies
\* the lows under a flat high; either field may be missing from a bar.
HighsBars == [h : Prices \cup {None}, l : {1}]
LowsBars == [h : {MaxPrice}, l : Prices \cup {None}]

\* The example feed: five bars (high, low) = (10, 9), (11, 9.5), (12, 10),
\* (11, 9.8), (9, 8), in tenths.
ExampleBars ==
    << [h |-> 100, l |-> 90], [h |-> 110, l |-> 95], [h |-> 120, l |-> 100],
       [h |-> 110, l |-> 98], [h |-> 90, l |-> 80] >>

Feeds == {"highs", "lows", "example"}

\* The bars the upstream may have added since the last fetch.
next_bars(f, bs) ==
    IF f = "highs" THEN HighsBars
    ELSE IF f = "lows" THEN LowsBars
    ELSE IF Len(bs) < Len(ExampleBars) THEN { ExampleBars[Len(bs) + 1] }
    ELSE {}

\* GET /api/context/levels, the 4h part: the upstream has one more bar than
\* at the last request; the handler fetches the sequence, scans it for
\* swings and lists the untaken ones.  An exception leaves the handler as a
\* 500 response.
levels ==
    /\ Len(bars) < MaxBars
    /\ \E b \in next_bars(feed, bars) :
         bars' = Append(bars, [t |-> Len(bars), h |-> b.h, l |-> b.l])
    /\ swings' = swing_points(bars', left, right)
    /\ breaches' = breaches_of(feed, bars', swings')
    /\ LET failed == \E k \in DOMAIN breaches' : breaches'[k].raised
       IN  /\ h4_levels' = IF failed THEN <<>>
                           ELSE untaken_levels(swings', breaches', 1)
           /\ levels_status' = IF failed THEN 500 ELSE 200
    /\ UNCHANGED <<feed, left, right>>
    /\ UNCHANGED <<windowVars, m15Vars, seriesVars>>
    /\ UNCHANGED clientVars

InitLevels ==
    /\ feed \in Feeds
    /\ bars = <<>>
    /\ left \in 0 .. MaxNeighbours
    /\ right \in 0 .. MaxNeighbours
    /\ swings = <<>>
    /\ breaches = <<>>
    /\ h4_levels = <<>>
    /\ levels_status = 0
    /\ now = 0
    /\ hours_resp = NoResp
    /\ req = NoRequest
    /\ eff = NoWindow
    /\ resp = NoResp
    /\ upstream = <<>>
    /\ IdleM15
    /\ IdleSeries
    /\ IdleClient

NextLevels == levels

SpecLevels == InitLevels /\ [][NextLevels]_vars

-----------------------------------------------------------------------------
(* Imbalance (fair value gap) scanner of /api/context/levels.              *)

\* 15m bars are records [t, o, h, l, c]; each price field is a price or None.

\* The gap tests made non-strict: >= and <=.
is_gap_or_touch(lower, upper) == upper >= lower

\* cl > ah for a bullish gap (lower = ah, upper = cl), ch < al for a
\* bearish one (lower = ch, upper = al)
is_gap(lower, upper) == upper > lower

\* The body of _find_fvgs_15m's loop for index i: the gaps it appends.
gaps_at(bs, i) ==
    LET a == At(bs, i - 2)
        c == At(bs, i)
        gap(type, start, end) ==
            [type |-> type, bar_index |-> i, start |-> start, end |-> end,
             formed_at |-> c.t, filled |-> FALSE, filled_at |-> None]
    IN  IF a.h = None \/ a.l = None \/ c.h = None \/ c.l = None THEN <<>>
        ELSE (IF is_gap(a.h, c.l) THEN <<gap("bullish", a.h, c.l)>> ELSE <<>>)
             \o (IF is_gap(c.h, a.l) THEN <<gap("bearish", c.h, a.l)>> ELSE <<>>)

RECURSIVE find_fvgs_from(_, _)
find_fvgs_from(bs, i) ==
    IF i >= Len(bs) THEN <<>>
    ELSE gaps_at(bs, i) \o find_fvgs_from(bs, i + 1)

\* _find_fvgs_15m(bars15): for i in range(2, len(bars15))
find_fvgs_15m(bs) == find_fvgs_from(bs, 2)

\* A fill test that wants the bar to reach inside the gap.
reaches_inside(g, b) == b.l < g.end /\ b.h > g.start

\* l <= g["end"] and h >= g["start"]
touches(g, b) == b.l <= g.end /\ b.h >= g.start

\* _mark_fvg_fills' inner loop for gap g over the bars from position k on.
RECURSIVE mark_fill(_, _, _)
mark_fill(g, subsequent_bars, k) ==
    IF k > Len(subsequent_bars) THEN g
    ELSE LET b == subsequent_bars[k]
         IN  IF b.h = None \/ b.l = None
             THEN mark_fill(g, subsequent_bars, k + 1)
             ELSE IF touches(g, b)
             THEN [g EXCEPT !.filled = TRUE, !.filled_at = b.t]
             ELSE mark_fill(g, subsequent_bars, k + 1)

\* _mark_fvg_fills(gaps, subsequent_bars)
mark_fvg_fills(gaps, subsequent_bars) ==
    [k \in DOMAIN gaps |-> mark_fill(gaps[k], subsequent_bars, 1)]

\* A tail that holds the newest bar only.
newest_bar_after(bs, g) ==
    IF g.bar_index + 1 < Len(bs) THEN SubSeq(bs, Len(bs), Len(bs)) ELSE <<>>

\* bars_15[g["bar_index"] + 1:] if g["bar_index"] + 1 < len(bars_15) else []
tail_after(bs, g) ==
    IF g.bar_index + 1 < Len(bs) THEN SubSeq(bs, g.bar_index + 2, Len(bs)) ELSE <<>>

\* [g for g in fvgs_all if not g["filled"]]
RECURSIVE unfilled(_, _)
unfilled(gaps, k) ==
    IF k > Len(gaps) THEN <<>>
    ELSE (IF gaps[k].filled THEN <<>> ELSE <<gaps[k]>>) \o unfilled(gaps, k + 1)

\* The longest 15m bar sequence the upstream serves.
MaxBars15 == 5

\* A bar whose high and low are both p.
flat(p) == [o |-> p, h |-> p, l |-> p, c |-> p]

\* The feed "ranges" serves whole bars, flat ones and one spanning all the
\* prices; the feed "holes" serves flat bars and bars with one field missing.
RangeBars == { flat(p) : p \in Prices } \cup { [flat(1) EXCEPT !.h = MaxPrice] }
HoleBars ==
    { flat(p) : p \in Prices }
        \cup { [flat(1) EXCEPT ![f] = None] : f \in {"o", "h", "l", "c"} }

Feeds15 == {"ranges", "holes"}

next_bars_15(f) == IF f = "ranges" THEN RangeBars ELSE HoleBars

\* GET /api/context/levels, the 15m imbalance part: the upstream has one
\* more 15m bar than at the last request; the handler fetches the sequence,
\* finds the gaps, marks each against the bars after it and lists the open
\* ones.
levels_fvgs ==
    /\ Len(bars_15) < MaxBars15
    /\ \E b \in next_bars_15(feed15) :
         bars_15' = Append(bars_15, [t |-> Len(bars_15), o |-> b.o, h |-> b.h,
                                     l |-> b.l, c |-> b.c])
    /\ LET found == find_fvgs_15m(bars_15')
       IN  fvgs_all' = [k \in DOMAIN found |->
                          mark_fvg_fills(<<found[k]>>, tail_after(bars_15', found[k]))[1]]
    /\ open_fvgs' = unfilled(fvgs_all', 1)
    /\ UNCHANGED feed15
    /\ UNCHANGED <<windowVars, swingVars, seriesVars>>
    /\ UNCHANGED clientVars

InitFvgs ==
    /\ feed15 \in Feeds15
    /\ bars_15 = <<>>
    /\ fvgs_all = <<>>
    /\ open_fvgs = <<>>
    /\ now = 0
    /\ hours_resp = NoResp
    /\ req = NoRequest
    /\ eff = NoWindow
    /\ resp = NoResp
    /\ upstream = <<>>
    /\ IdleLevels
    /\ IdleSeries
    /\ IdleClient

NextFvgs == levels_fvgs

SpecFvgs == InitFvgs /\ [][NextFvgs]_vars

-----------------------------------------------------------------------------
(* Indicators and VWAP (main.py).                                          *)

\* Python's floats are taken as exact: a number is a fraction [n, d] in
\* lowest terms with d > 0.  NoValue stands for None in a series of numbers.

RECURSIVE gcd(_, _)
gcd(a, b) == IF b = 0 THEN a ELSE gcd(b, a % b)

Abs(x) == IF x < 0 THEN -x ELSE x

Frac(n, d) ==
    LET g == gcd(Abs(n), Abs(d))
        sign == IF d < 0 THEN -1 ELSE 1
    IN  [n |-> sign * (n \div g), d |-> sign * (d \div g)]

NoValue == [n |-> 0, d |-> 0]
Num(x) == Frac(x, 1)
FAdd(a, b) == Frac(a.n * b.d + b.n * a.d, a.d * b.d)
FSub(a, b) == Frac(a.n * b.d - b.n * a.d, a.d * b.d)
FMul(a, b) == Frac(a.n * b.n, a.d * b.d)
FDiv(a, b) == Frac(a.n * b.d, a.d * b.n)
FLeq(a, b) == a.n * b.d <= b.n * a.d

RECURSIVE Sum(_, _, _)
\* sum(s[a:b]) for a list s of whole numbers
Sum(s, a, b) == IF a >= b \/ a >= Len(s) THEN 0 ELSE At(s, a) + Sum(s, a + 1, b)

\* Candles are records [h, l, c, v] as retrieve_bars returns them; each
\* field is a whole number or None.

\* _f(_gx(b, key, long_key)): float(None) raises and gives 0.0
f_of(x) == IF x = None THEN 0 ELSE x

\* series_close(bars)
series_close(bs) == [k \in DOMAIN bs |-> f_of(bs[k].c)]

\* A window that is never trimmed from i = length on, only from i > length.
leaves_window_late(i, len) == i > len

\* if i >= length: s -= values[i - length]
leaves_window(i, len) == i >= len

\* sma's loop from index i on, s the running sum; the result pairs the
\* outputs with the sum the loop held after each step.
RECURSIVE sma_from(_, _, _, _)
sma_from(values, len, i, s) ==
    IF i >= Len(values) THEN [out |-> <<>>, sums |-> <<>>]
    ELSE LET added == s + At(values, i)
             s1 == IF leaves_window(i, len) THEN added - At(values, i - len)
                   ELSE added
             rest == sma_from(values, len, i + 1, s1)
         IN  [out |-> <<IF i >= len - 1 THEN Frac(s1, len) ELSE NoValue>> \o rest.out,
              sums |-> <<s1>> \o rest.sums]

\* sma(values, length)
sma(values, len) == sma_from(values, len, 0, 0)

\* ema's loop from index i on, e the running average or NoValue.
RECURSIVE ema_from(_, _, _, _)
ema_from(values, len, i, e) ==
    IF i >= Len(values) THEN <<>>
    ELSE LET k == Frac(2, len + 1)
             v == Num(At(values, i))
         IN  IF e = NoValue /\ ~(i >= len - 1)
             THEN <<NoValue>> \o ema_from(values, len, i + 1, e)
             ELSE LET e0 == IF e = NoValue THEN Frac(Sum(values, 0, len), len) ELSE e
                      e1 == FAdd(FMul(FSub(v, e0), k), e0)
                  IN  <<e1>> \o ema_from(values, len, i + 1, e1)

\* ema(values, length)
ema(values, len) ==
    IF len <= 0 THEN [k \in DOMAIN values |-> NoValue]
    ELSE ema_from(values, len, 0, NoValue)

\* gains and losses: index 0 holds 0.0, index i the rise or fall since i-1
gains_of(values) ==
    [k \in DOMAIN values |->
        IF k = 1 THEN 0 ELSE Max(values[k] - values[k - 1], 0)]
losses_of(values) ==
    [k \in DOMAIN values |->
        IF k = 1 THEN 0 ELSE Max(-(values[k] - values[k - 1]), 0)]

\* A seed average over the first length entries, the leading 0.0 included.
seed_from_start(series, len) == Frac(Sum(series, 0, len), len)

\* sum(series[1:length+1]) / float(length)
seed_average(series, len) == Frac(Sum(series, 1, len + 1), len)

\* ((avg * (length - 1)) + new) / float(length)
smooth(avg, new, len) == FDiv(FAdd(FMul(avg, Num(len - 1)), Num(new)), Num(len))

\* A strength that is the ratio itself, scaled.
rsi_value_unbounded(ag, al) ==
    IF al.n = 0 THEN Num(100) ELSE FMul(Num(100), FDiv(ag, al))

\* 100.0 if not al, else 100.0 - (100.0 / (1.0 + ag / al))
rsi_value(ag, al) ==
    IF al.n = 0 THEN Num(100)
    ELSE FSub(Num(100), FDiv(Num(100), FAdd(Num(1), FDiv(ag, al))))

\* rsi's second loop from index i on; the result pairs the outputs with
\* the average gain and loss the loop held at each index.
RECURSIVE rsi_from(_, _, _, _, _, _)
rsi_from(gains, losses, len, i, ag, al) ==
    IF i >= Len(gains) THEN [out |-> <<>>, ag |-> <<>>, al |-> <<>>]
    ELSE IF i < len
    THEN LET rest == rsi_from(gains, losses, len, i + 1, ag, al)
         IN  [out |-> <<NoValue>> \o rest.out, ag |-> <<NoValue>> \o rest.ag,
              al |-> <<NoValue>> \o rest.al]
    ELSE LET ag1 == IF i = len THEN seed_average(gains, len)
                    ELSE smooth(ag, At(gains, i), len)
             al1 == IF i = len THEN seed_average(losses, len)
                    ELSE smooth(al, At(losses, i), len)
             rest == rsi_from(gains, losses, len, i + 1, ag1, al1)
         IN  [out |-> <<rsi_value(ag1, al1)>> \o rest.out,
              ag |-> <<ag1>> \o rest.ag, al |-> <<al1>> \o rest.al]

\* rsi(values, length)
rsi(values, len) ==
    IF len <= 0
    THEN [out |-> [k \in DOMAIN values |-> NoValue],
          ag |-> [k \in DOMAIN values |-> NoValue],
          al |-> [k \in DOMAIN values |-> NoValue]]
    ELSE rsi_from(gains_of(values), losses_of(values), len, 0, NoValue, NoValue)

\* A price-volume product that forgets the volume.
unweighted(tp, v) == tp

\* tp * v
weighted(tp, v) == FMul(tp, Num(v))

\* compute_vwap's loop from position k on.
RECURSIVE vwap_from(_, _, _, _)
vwap_from(bs, k, cum_pv, cum_v) ==
    IF k > Len(bs) THEN <<>>
    ELSE LET h == f_of(bs[k].h)
             l == f_of(bs[k].l)
             c == f_of(bs[k].c)
             v == f_of(bs[k].v)
             tp == Frac(h + l + c, 3)
             pv1 == FAdd(cum_pv, weighted(tp, v))
             v1 == cum_v + v
             vwap_val == IF v1 > 0 THEN FDiv(pv1, Num(v1)) ELSE Num(0)
         IN  <<[typicalPrice |-> tp, vwap |-> vwap_val, close |-> c, volume |-> v]>>
             \o vwap_from(bs, k + 1, pv1, v1)

\* compute_vwap(bars)
compute_vwap(bs) ==
    LET series == vwap_from(bs, 1, Num(0), 0)
    IN  [final |-> IF series # <<>> THEN series[Len(series)].vwap ELSE Num(0),
         series |-> series,
         count |-> Len(series)]

\* The lengths asked for, and the longest candle sequences served.
MaxLength == 2
MaxCandles == 5
MaxVwapCandles == 3

\* Candles of /api/indicators: the close is a price or missing.
CloseCandles ==
    { [h |-> MaxPrice, l |-> 1, c |-> c, v |-> 1] : c \in Prices \cup {None} }

\* Candles of /api/vwap: a flat one, a high one and a skewed one, each with
\* volume missing, 0, 1 or 2, and one with the high missing.
MaxVolume == 2
VwapCandles ==
    { [h |-> s[1], l |-> s[2], c |-> s[3], v |-> v] :
        s \in { <<1, 1, 1>>, <<MaxPrice, MaxPrice, MaxPrice>>, <<2, 1, 1>>, <<None, MaxPrice, MaxPrice>> },
        v \in (0 .. MaxVolume) \cup {None} }

\* GET /api/indicators, after the window is resolved: the upstream has one
\* more candle than at the last request, and sma, ema and rsi are computed
\* over the closes.
indicators_series ==
    /\ Len(candles) < MaxCandles
    /\ \E b \in CloseCandles : candles' = Append(candles, b)
    /\ sma_out' = sma(series_close(candles'), length)
    /\ ema_out' = ema(series_close(candles'), length)
    /\ rsi_out' = rsi(series_close(candles'), length)
    /\ UNCHANGED <<length, vwap_out>>
    /\ UNCHANGED <<windowVars, swingVars, m15Vars>>
    /\ UNCHANGED clientVars

\* GET /api/vwap, after the window is resolved: the upstream has one more
\* candle than at the last request, and compute_vwap runs over them.
vwap_series ==
    /\ Len(candles) < MaxVwapCandles
    /\ \E b \in VwapCandles : candles' = Append(candles, b)
    /\ vwap_out' = compute_vwap(candles')
    /\ UNCHANGED <<length, sma_out, ema_out, rsi_out>>
    /\ UNCHANGED <<windowVars, swingVars, m15Vars>>
    /\ UNCHANGED clientVars

IdleWindow ==
    /\ now = 0
    /\ hours_resp = NoResp
    /\ req = NoRequest
    /\ eff = NoWindow
    /\ resp = NoResp
    /\ upstream = <<>>

InitIndicators ==
    /\ length \in 1 .. MaxLength
    /\ candles = <<>>
    /\ sma_out = sma(<<>>, length)
    /\ ema_out = ema(<<>>, length)
    /\ rsi_out = rsi(<<>>, length)
    /\ vwap_out = compute_vwap(<<>>)
    /\ IdleWindow
    /\ IdleLevels
    /\ IdleM15
    /\ IdleClient

NextIndicators == indicators_series

SpecIndicators == InitIndicators /\ [][NextIndicators]_vars

InitVwap ==
    /\ IdleSeries
    /\ IdleClient
    /\ IdleWindow
    /\ IdleLevels
    /\ IdleM15

NextVwap == vwap_series

SpecVwap == InitVwap /\ [][NextVwap]_vars

-----------------------------------------------------------------------------
(* /api/context/levels: the parameters, the 15m fetch and the session      *)
(* slices.  Chicago is on daylight time (UTC-5) throughout; the days on    *)
(* which its offset changes are not modelled.                              *)

\* dt.astimezone(CT): the civil reading of an instant, and back.
CT_utcoffset == 0 - 5 * MsPerHour
civil_ct(dt) == dt + CT_utcoffset

\* datetime(day.year, day.month, day.day, h, m, tzinfo=CT) as an instant,
\* for the civil day that starts at the civil reading day_ct.
datetime_ct(day_ct, h, m) == day_ct + timedelta(0, h, m) - CT_utcoffset

\* asof_ct.date(), as the civil reading of its midnight.
date_ct(dt) == civil_ct(dt) - (civil_ct(dt) % MsPerDay)

\* _iso_z of a datetime: isoformat() keeps every digit, so the text is
\* identified with the instant.
iso_z(dt) == dt

\* The instants asOf and the clock take: Wednesday 01:00, 02:00, 08:00 and
\* 16:00 Chicago time, and Tuesday 20:00 Chicago time, which is a Wednesday
\* in UTC.
Tuesday == 1 * MsPerDay
Wednesday == 2 * MsPerDay
AsOfTimes ==
    { datetime_ct(Wednesday, 1, 0), datetime_ct(Wednesday, 2, 0),
      datetime_ct(Wednesday, 8, 0), datetime_ct(Wednesday, 16, 0),
      datetime_ct(Tuesday, 20, 0) }

\* The 15m bars the upstream may hold, from Tuesday's 15:00 close to
\* Wednesday morning, and one bar whose time does not parse.
SessionBar(t, h, l) == [t |-> t, h |-> h, l |-> l]
MarketBars ==
    { SessionBar(datetime_ct(Tuesday, 15, 0), 5, 4),
      SessionBar(datetime_ct(Tuesday, 15, 30), 6, 5),
      SessionBar(datetime_ct(Tuesday, 16, 0), 5, 3),
      SessionBar(datetime_ct(Tuesday, 18, 0), 4, 2),
      SessionBar(datetime_ct(Wednesday, 2, 0), 7, 1),
      SessionBar(datetime_ct(Wednesday, 7, 30), 6, 3),
      SessionBar(datetime_ct(Wednesday, 7, 45), 8, 2),
      SessionBar(None, 9, 1) }

LevelsRequests ==
    [symbol : BOOLEAN, contract : BOOLEAN,
     asOf : {NoArg, BadArg} \cup { TimeArg(t) : t \in AsOfTimes }]

\* The bars of a set in the order of their times, a bar without a time last.
RECURSIVE in_time_order(_)
in_time_order(bs) ==
    IF bs = {} THEN <<>>
    ELSE LET timed == { b \in bs : b.t # None }
             first == IF timed = {} THEN CHOOSE b \in bs : TRUE
                      ELSE CHOOSE b \in timed : \A c \in timed : b.t <= c.t
         IN  <<first>> \o in_time_order(bs \ {first})

\* What the upstream returns for a 15m request: the bars it holds from
\* startTime to endTime; a bar without a usable time comes with any request.
upstream_bars(held, start, end) ==
    in_time_order({ b \in held : b.t = None \/ (start <= b.t /\ b.t <= end) })

\* m15_fetch_start = asian_start - timedelta(hours=2)
fetch_start(asian_start, prev_close_ct) == asian_start - timedelta(0, 2, 0)

\* A slice that leaves out a bar stamped exactly at the window's end.
in_window_end_exclusive(t, su, eu) == su <= t /\ t < eu

\* if su <= t <= eu
in_window(t, su, eu) == su <= t /\ t <= eu

\* _slice(bars, start_ct, end_ct): a bar whose time does not parse is
\* skipped.
slice(bs, start_ct, end_ct) ==
    SelectSeq(bs, LAMBDA b : b.t # None /\ in_window(b.t, start_ct, end_ct))

SetMax(S) == CHOOSE x \in S : \A y \in S : y <= x
SetMin(S) == CHOOSE x \in S : \A y \in S : x <= y

\* next((b["t"] for b in bars if b[field] == value), None)
first_time(bs, field, value) ==
    LET hits == { i \in DOMAIN bs : bs[i][field] = value }
    IN  IF hits = {} THEN None ELSE bs[SetMin(hits)].t

\* _hl(bars): None for no bars, or when no high or no low is given.
hl(bs) ==
    LET highs == { bs[i].h : i \in { j \in DOMAIN bs : bs[j].h # None } }
        lows == { bs[i].l : i \in { j \in DOMAIN bs : bs[j].l # None } }
    IN  IF bs = <<>> \/ highs = {} \/ lows = {} THEN NoSummary
        ELSE [high |-> SetMax(highs), high_at |-> first_time(bs, "h", SetMax(highs)),
              low |-> SetMin(lows), low_at |-> first_time(bs, "l", SetMin(lows)),
              count |-> Len(bs)]

\* What the handler has computed when it answers before the session part.
NoSessions ==
    [m15_fetched |-> <<>>, asian_15 |-> <<>>, london_15 |-> <<>>,
     m15_sessions |-> [asian |-> NoSummary, london |-> NoSummary],
     since_prev_close |-> <<>>, m15_swings |-> <<>>]

Stopped(code, text, calls) ==
    [resp |-> Failure(code, text), calls |-> calls, out |-> NoSessions]

\* The handler from the 4h fetch on, for a parsed asOf.
levels_from_bars(asof, held, calls, failing) ==
    LET day_ct == date_ct(asof)
        asian_start == datetime_ct(day_ct, 18, 0) - timedelta(1, 0, 0)
        asian_end == datetime_ct(day_ct, 2, 0)
        london_start == datetime_ct(day_ct, 2, 0)
        london_end == datetime_ct(day_ct, 7, 30)
        prev_close_ct == datetime_ct(day_ct, 15, 0) - timedelta(1, 0, 0)
        m15_fetch_start == fetch_start(asian_start, prev_close_ct)
        fetch_4h == [op |-> "bars", interval |-> "4h",
                     start |-> iso_z(asof - timedelta(5, 1, 0)), end |-> iso_z(asof)]
        fetch_15m == [op |-> "bars", interval |-> "15m",
                      start |-> iso_z(m15_fetch_start), end |-> iso_z(asof)]
        fetched == upstream_bars(held, m15_fetch_start, asof)
        asian == slice(fetched, asian_start, asian_end)
        london == slice(fetched, london_start, london_end)
        since == slice(fetched, prev_close_ct, asof)
    IN  IF failing = "4h"
        THEN Stopped(500, "exception", calls \o <<fetch_4h>>)
        ELSE IF failing = "15m"
        THEN Stopped(500, "exception", calls \o <<fetch_4h, fetch_15m>>)
        ELSE [resp |-> [status |-> 200, asOf |-> iso_z(asof)],
              calls |-> calls \o <<fetch_4h, fetch_15m>>,
              out |-> [m15_fetched |-> fetched, asian_15 |-> asian,
                       london_15 |-> london,
                       m15_sessions |-> [asian |-> hl(asian), london |-> hl(london)],
                       since_prev_close |-> since,
                       m15_swings |-> swing_points(since, 2, 2)]]

\* levels(): the parameters, the contract search, asOf, then the fetches.
levels_answer(r, clock_utc, held, found, failing) ==
    LET search == [op |-> "search", answer |-> found]
        calls == IF r.contract THEN <<>> ELSE <<search>>
    IN  IF ~r.symbol /\ ~r.contract
        THEN Stopped(400, "Provide ?symbol= or ?contract=", <<>>)
        ELSE IF ~r.contract /\ found = "failed"
        THEN Stopped(500, "exception", calls)
        ELSE IF ~r.contract /\ found = "none"
        THEN Stopped(404, "No contract found for symbol", calls)
        ELSE IF r.asOf.kind = "bad"
        THEN Stopped(400, "Bad asOf format", calls)
        ELSE levels_from_bars(IF r.asOf.kind = "time" THEN r.asOf.t ELSE clock_utc,
                              held, calls, failing)

\* GET /api/context/levels, the session part.
levels_sessions ==
    /\ levels_resp = NoResp
    /\ \E found \in {"id", "none", "failed"}, failing \in {"nothing", "4h", "15m"} :
         LET a == levels_answer(levels_req, now, market, found, failing)
         IN  /\ levels_resp' = a.resp
             /\ levels_calls' = a.calls
             /\ m15_fetched' = a.out.m15_fetched
             /\ asian_15' = a.out.asian_15
             /\ london_15' = a.out.london_15
             /\ m15_sessions' = a.out.m15_sessions
             /\ since_prev_close' = a.out.since_prev_close
             /\ m15_swings' = a.out.m15_swings
    /\ UNCHANGED <<levels_req, market>>
    /\ UNCHANGED analyticsVars
    /\ UNCHANGED intervalVars
    /\ UNCHANGED retryVars
    /\ UNCHANGED authVars

-----------------------------------------------------------------------------
(* Specifications of the client-side entry points.                         *)

IdleAnalytics ==
    /\ IdleWindow
    /\ IdleLevels
    /\ IdleM15
    /\ IdleSeries

InitInterval ==
    /\ interval \in Intervals
    /\ bar_request = NoBarRequest
    /\ IdleRetry
    /\ IdleAuth
    /\ IdleSessions
    /\ IdleAnalytics

NextInterval ==
    \/ analytics_interval
    \/ api_bars
    \/ retrieve_bars
    \/ context_retrieve_bars

SpecInterval == InitInterval /\ [][NextInterval]_vars

\* RETRY_MAX as configured, from 1 up.
MaxRetryMax == 3

InitRetry ==
    /\ retry_max \in 1 .. MaxRetryMax
    /\ attempt = 0
    /\ post_log = <<>>
    /\ last_exc = NoOutcome
    /\ post_result = Looping
    /\ IdleInterval
    /\ IdleAuth
    /\ IdleSessions
    /\ IdleAnalytics

NextRetry == http_post_attempt

SpecRetry == InitRetry /\ [][NextRetry]_vars

\* requests.post is given a timeout and time.sleep returns, so an iteration
\* that can run does run.
SpecRetryFair == SpecRetry /\ WF_vars(http_post_attempt)

InitAuth ==
    /\ IdleAuth
    /\ IdleInterval
    /\ IdleRetry
    /\ IdleSessions
    /\ IdleAnalytics

NextAuth ==
    \/ tick
    \/ \E t \in Threads : auth_token_call(t)
    \/ \E t \in Threads : auth_token_answer(t)
    \/ \E t \in Threads : auth_token_store_expiry(t)
    \/ \E t \in Threads : auth_token_end(t)

SpecAuth == InitAuth /\ [][NextAuth]_vars

\* A request, the bars the upstream holds, and the clock: read only when
\* asOf is not given.
InitSessions ==
    /\ levels_req \in LevelsRequests
    /\ market \in SUBSET MarketBars
    /\ now \in (IF levels_req.asOf.kind = "absent" THEN AsOfTimes
                ELSE { datetime_ct(Wednesday, 16, 0) })
    /\ hours_resp = NoResp
    /\ req = NoRequest
    /\ eff = NoWindow
    /\ resp = NoResp
    /\ upstream = <<>>
    /\ levels_calls = <<>>
    /\ levels_resp = NoResp
    /\ m15_fetched = <<>>
    /\ asian_15 = <<>>
    /\ london_15 = <<>>
    /\ m15_sessions = [asian |-> NoSummary, london |-> NoSummary]
    /\ since_prev_close = <<>>
    /\ m15_swings = <<>>
    /\ IdleLevels
    /\ IdleM15
    /\ IdleSeries
    /\ IdleInterval
    /\ IdleRetry
    /\ IdleAuth

NextSessions == levels_sessions

SpecSessions == InitSessions /\ [][NextSessions]_vars

-----------------------------------------------------------------------------
(* Properties of the weekend gap detector (checked under SpecHours).       *)

Week == 7 * MsPerDay

\* Milliseconds from Monday 00:00 UTC of the week t lies in.
InWeek(t) == t % Week

GapOpens == 4 * MsPerDay + 20 * MsPerHour
GapCloses == 6 * MsPerDay + 22 * MsPerHour

\* t lies strictly between a Friday 20:00 UTC and the following Sunday 22:00 UTC.
InGap(t) == GapOpens < InWeek(t) /\ InWeek(t) < GapCloses

DayOf(t) == t \div MsPerDay

\* C1: /hours reports closed exactly when the clock lies strictly between
\* Friday 20:00:00 UTC and the following Sunday 22:00:00 UTC; at the two
\* boundary instants it reports open, one millisecond inside it reports closed.
C1_ClosedExactlyInsideGap ==
    hours_resp.status = 200 => (hours_resp.closed <=> InGap(now))

\* C1 witness: Friday 20:00:00.001 was served and reported closed.
C1_Witness ==
    /\ hours_resp.status = 200
    /\ InWeek(now) = GapOpens + 1
    /\ hours_resp.closed

\* C2: on every day of the week fridayClose is 20:00 UTC of the latest Friday
\* whose date is on or before the instant's date (0 to 6 days back), and
\* sundayOpen is fridayClose + 50 hours.
C2_FridayCloseAndSundayOpen ==
    hours_resp.status = 200 =>
        LET fc == hours_resp.fridayClose
        IN  /\ DayOf(fc) % 7 = 4
            /\ fc % MsPerDay = 20 * MsPerHour
            /\ DayOf(fc) <= DayOf(now)
            /\ DayOf(now) - DayOf(fc) <= 6
            /\ hours_resp.sundayOpen = fc + 50 * MsPerHour

\* C2 witness: a Friday before 20:00 was served and got that same Friday's close.
C2_Witness ==
    /\ hours_resp.status = 200
    /\ DayOf(now) % 7 = 4
    /\ now < hours_resp.fridayClose
    /\ DayOf(hours_resp.fridayClose) = DayOf(now)

-----------------------------------------------------------------------------
(* Properties of the window resolver (checked under SpecWindow).           *)

\* The requested window as the handler parsed it.
Asked == window_args(req, now)
ReqStart == Asked.start.t
ReqEnd == Asked.end.t

\* The request was answered and the handler got as far as the weekend guard:
\* its window parsed and, for /api/indicators, a length was given.
Resolved ==
    /\ resp # NoResp
    /\ Asked.start.kind = "time" /\ Asked.end.kind = "time"
    /\ req.handler = "indicators" => req.indicators = "lengths"

GuardIsOn == req.guard # "off"

\* auto_window as the request sets it: the parameter when it is given, the
\* weekly mode's default in /api/vwap, and in /api/indicators the default of
\* true that applies to a closed market when the parameter is not given.
AutoWindowIsOn ==
    \/ req.auto_window = "true"
    \/ req.handler = "vwap" /\ req.auto_window \in {Absent, ""} /\ req.mode = "weekly"
    \/ req.handler = "indicators" /\ req.auto_window = Absent /\ InGap(ReqEnd)

BarFetches == { i \in DOMAIN upstream : upstream[i].op = "bars" }

\* C3: closed at the requested end, guard on, auto_window false: the request
\* is rejected with 409 and nothing was asked of the upstream, so it is
\* answered neither with a computed result nor with "No bars returned".
C3_ClosedGuardedIsRejected ==
    (Resolved /\ InGap(ReqEnd) /\ GuardIsOn /\ ~AutoWindowIsOn) =>
        /\ resp.status = 409
        /\ upstream = <<>>

\* C3 witness: /api/indicators rejected a request whose auto_window was
\* given as false while the market was closed.
C3_Witness ==
    /\ Resolved /\ InGap(ReqEnd)
    /\ req.handler = "indicators" /\ req.auto_window = "false"
    /\ resp.status = 409

\* C4: closed at the requested end and auto_window true: effectiveEnd is
\* min(fridayClose, requestedEnd), effectiveStart is max(effectiveEnd -
\* (requestedEnd - requestedStart), effectiveEnd - 7 days), adjusted is true;
\* the effective duration is the requested one when that is at most seven
\* days and exactly seven days otherwise.
C4_ClipKeepsDurationUpToSevenDays ==
    (Resolved /\ InGap(ReqEnd) /\ AutoWindowIsOn) =>
        LET fridayClose == ReqEnd - InWeek(ReqEnd) + GapOpens
            asked == ReqEnd - ReqStart
        IN  /\ eff.reached
            /\ eff.adjusted
            /\ eff.end = Min(fridayClose, ReqEnd)
            /\ eff.start = Max(eff.end - asked, eff.end - 7 * MsPerDay)
            /\ asked <= 7 * MsPerDay => eff.end - eff.start = asked
            /\ asked > 7 * MsPerDay => eff.end - eff.start = 7 * MsPerDay
            /\ resp.status = 200 => resp.windowAdjustedForClosure

\* C4 witness: an eight-day window ending inside the gap was clipped to the
\* seven days before Friday's close and answered.
C4_Witness ==
    /\ Resolved /\ InGap(ReqEnd) /\ AutoWindowIsOn
    /\ ReqEnd - ReqStart = 8 * MsPerDay
    /\ eff.reached /\ eff.adjusted
    /\ eff.end - eff.start = 7 * MsPerDay
    /\ resp.status = 200

\* C5: not closed at the requested end: whatever guard and auto_window are,
\* the effective window is the requested one, windowAdjustedForClosure is
\* false, and bars are fetched for the requested window.
C5_OpenMarketPassesWindowThrough ==
    (Resolved /\ ~InGap(ReqEnd)) =>
        /\ eff = [reached |-> TRUE, start |-> ReqStart, end |-> ReqEnd,
                  adjusted |-> FALSE]
        /\ resp.status # 409
        /\ resp.status = 200 =>
             /\ resp.effectiveStart = resp.requestedStart
             /\ resp.effectiveEnd = resp.requestedEnd
             /\ ~resp.windowAdjustedForClosure
        /\ \A i \in BarFetches :
             /\ upstream[i].start = fmt_iso_z(ReqStart)
             /\ upstream[i].end = fmt_iso_z(ReqEnd)

\* C5 witness: a window ending at Sunday 22:00:00 exactly, sent with guard
\* off and auto_window true, was answered unchanged.
C5_Witness ==
    /\ Resolved /\ InWeek(ReqEnd) = GapCloses
    /\ req.guard = "off" /\ req.auto_window = "true"
    /\ resp.status = 200
    /\ resp.effectiveEnd = resp.requestedEnd
    /\ BarFetches # {}


-----------------------------------------------------------------------------
(* Properties of the swing/level scanner.                                  *)

Indices == 0 .. (Len(bars) - 1)
High(i) == At(bars, i).h
Low(i) == At(bars, i).l
AllPresent == \A i \in Indices : High(i) # None /\ Low(i) # None

\* The indices the scan visits, and the neighbours of a visited index.
Scanned == { i \in Indices : left <= i /\ i < Len(bars) - right }
Before(i) == { i - k : k \in 1 .. left }
After(i) == { i + k : k \in 1 .. right }

\* The (type, idx) pairs of the swings found.
Found == { <<swings[k].type, swings[k].idx>> : k \in DOMAIN swings }

IsHighest(i) == \A n \in Before(i) \cup After(i) : High(i) >= High(n)
IsLowest(i) == \A n \in Before(i) \cup After(i) : Low(i) <= Low(n)

\* C6: when every bar has its high and its low, index i is found as a swing
\* high exactly when the scan visits it (left <= i < n - right) and its high
\* is >= the high of each of its left and right neighbours, and as a swing
\* low exactly when its low is <= each of those neighbours' lows; each swing
\* is listed once, with the bar's own price; with left = right = 0 every bar
\* is found as both.
C6_SwingsAreExactlyTheNonStrictExtremes ==
    AllPresent =>
        /\ \A i \in Indices :
             /\ <<"swing_high", i>> \in Found <=> (i \in Scanned /\ IsHighest(i))
             /\ <<"swing_low", i>> \in Found <=> (i \in Scanned /\ IsLowest(i))
        /\ Len(swings) = Cardinality(Found)
        /\ \A k \in DOMAIN swings :
             swings[k].price = IF swings[k].type = "swing_high"
                               THEN High(swings[k].idx) ELSE Low(swings[k].idx)
        /\ (left = 0 /\ right = 0) =>
             \A i \in Indices :
                 <<"swing_high", i>> \in Found /\ <<"swing_low", i>> \in Found

\* A plateau: two neighbouring bars of equal high, above a third, both found
\* as swing highs, one of them also found as a swing low.
C6_Witness ==
    /\ AllPresent
    /\ left >= 1
    /\ right >= 1
    /\ \E i \in Indices :
         /\ <<"swing_high", i>> \in Found
         /\ <<"swing_high", i + 1>> \in Found
         /\ <<"swing_low", i>> \in Found
         /\ High(i) = High(i + 1)
         /\ \E n \in Before(i) : High(n) < High(i)

\* The example of the five bars, scanned with left = right = 1.
ExampleScanned ==
    /\ feed = "example"
    /\ left = 1
    /\ right = 1
    /\ Len(bars) = Len(ExampleBars)

Untaken(type, price) ==
    \E k \in DOMAIN swings :
        /\ swings[k].type = type
        /\ swings[k].price = price
        /\ ~breaches[k].taken
        /\ \E m \in DOMAIN h4_levels :
             h4_levels[m].type = type /\ h4_levels[m].price = price

\* C7 as the claim states it: the example yields a swing high at index 2
\* with price 12 and a swing low at index 4 with price 8, both untaken.
C7_ExampleYieldsHighAndLastBarLow ==
    ExampleScanned =>
        /\ <<"swing_high", 2>> \in Found
        /\ <<"swing_low", 4>> \in Found
        /\ Untaken("swing_high", 120)
        /\ Untaken("swing_low", 80)

\* C7: the example yields exactly one swing, the swing high at index 2 with
\* price 12, and it is untaken; the last bar, index 4, has no right
\* neighbour, is not scanned, and is no swing low.
C7_ExampleYieldsOnlyTheHigh ==
    ExampleScanned =>
        /\ Found = { <<"swing_high", 2>> }
        /\ Len(swings) = 1
        /\ swings[1].price = 120
        /\ Untaken("swing_high", 120)
        /\ Len(h4_levels) = 1
        /\ 4 \notin Scanned

C7_Witness ==
    /\ ExampleScanned
    /\ levels_status = 200
    /\ Low(4) = 80
    /\ \A i \in 0 .. 3 : Low(i) > Low(4)

\* The bars the comparisons for index i may read.
Window(i) == {i} \cup ((Before(i) \cup After(i)) \cap Indices)
Missing(i) == High(i) = None \/ Low(i) = None

\* C8 as the claim states it: an index whose own bar or one of whose
\* neighbours within left/right has a missing high or low is found neither
\* as a swing high nor as a swing low.
C8_MissingFieldExcludesIndex ==
    \A i \in Indices :
        (\E n \in Window(i) : Missing(n)) =>
            /\ <<"swing_high", i>> \notin Found
            /\ <<"swing_low", i>> \notin Found

\* a > b + 1e-9, said without the scanner's arithmetic: the example feed's
\* prices are whole tenths, so it is a > b; the other feeds' prices are whole
\* multiples of 1e-9, so it is a > b + 1.
Above(a, b) == IF feed = "example" THEN a > b ELSE a > b + 1

\* The later bars that breach swing k.
Breaching(k) ==
    { j \in Indices :
        /\ j > swings[k].idx
        /\ IF swings[k].type = "swing_high"
           THEN High(j) # None /\ Above(High(j), swings[k].price)
           ELSE Low(j) # None /\ Above(swings[k].price, Low(j)) }

UntakenSwings == { k \in DOMAIN swings : ~breaches[k].taken }

\* C9: in a response, a swing is taken exactly when some later bar has the
\* field present and beyond the level by more than 1e-9, and then it is taken
\* at the first such bar; h4_untaken_levels lists exactly the untaken
\* swings, in the order of the scan.
C9_BreachIsFirstLaterBarBeyondEpsilon ==
    levels_status = 200 =>
        /\ \A k \in DOMAIN swings :
             /\ breaches[k].taken <=> Breaching(k) # {}
             /\ breaches[k].taken =>
                  /\ breaches[k].at \in Breaching(k)
                  /\ \A j \in Breaching(k) : breaches[k].at <= j
             /\ ~breaches[k].taken => breaches[k].at = None
        /\ Len(h4_levels) = Cardinality(UntakenSwings)
        /\ \A k \in UntakenSwings :
             LET m == Cardinality({ u \in UntakenSwings : u <= k })
             IN  h4_levels[m] = [type |-> swings[k].type,
                                 price |-> swings[k].price,
                                 formed_at |-> swings[k].idx,
                                 untaken |-> TRUE]
        /\ \A k \in DOMAIN swings : \A u \in DOMAIN swings :
             k < u => swings[k].idx <= swings[u].idx

\* A swing high that a later bar passes by exactly 1e-9 without breaching
\* it and a still later bar breaches, next to an untaken swing in the list.
C9_Witness ==
    /\ levels_status = 200
    /\ feed # "example"
    /\ h4_levels # <<>>
    /\ \E k \in DOMAIN swings :
         /\ swings[k].type = "swing_high"
         /\ breaches[k].taken
         /\ \E j \in Indices :
              /\ swings[k].idx < j
              /\ j < breaches[k].at
              /\ High(j) = swings[k].price + 1

\* C10: when bars are appended, every swing found before is found again
\* (same index, type and price) and a swing that was taken is taken still,
\* at the same bar.
C10_AppendingKeepsSwingsAndBreaches ==
    [][ /\ Len(swings') >= Len(swings)
        /\ \A k \in DOMAIN swings :
             /\ swings'[k] = swings[k]
             /\ breaches[k].taken => breaches'[k] = breaches[k]
      ]_vars

\* A swing found before the newest bar came, untaken until then and taken
\* by the newest bar.
C10_Witness ==
    /\ Len(bars) >= 2
    /\ \E k \in DOMAIN swings :
         /\ swings[k].idx + right < Len(bars) - 1
         /\ breaches[k].taken
         /\ breaches[k].at = Len(bars) - 1

-----------------------------------------------------------------------------
(* Properties of the imbalance scanner.                                    *)

Indices15 == 0 .. (Len(bars_15) - 1)
Bar15(i) == At(bars_15, i)
HasRange(i) == Bar15(i).h # None /\ Bar15(i).l # None

\* The confirm indices whose anchor and confirm bars have high and low.
Eligible == { i \in Indices15 : i >= 2 /\ HasRange(i - 2) /\ HasRange(i) }

\* The gaps found, as (type, bar_index, lower bound, upper bound, formed_at).
Emitted ==
    { <<fvgs_all[k].type, fvgs_all[k].bar_index, fvgs_all[k].start,
        fvgs_all[k].end, fvgs_all[k].formed_at>> : k \in DOMAIN fvgs_all }

Expected ==
    { <<"bullish", i, Bar15(i - 2).h, Bar15(i).l, Bar15(i).t>> :
        i \in { e \in Eligible : Bar15(e).l > Bar15(e - 2).h } }
    \cup
    { <<"bearish", i, Bar15(i).h, Bar15(i - 2).l, Bar15(i).t>> :
        i \in { e \in Eligible : Bar15(e).h < Bar15(e - 2).l } }

\* C11: the gaps found are, once each, a bullish gap [anchor.high,
\* confirm.low] for every index i >= 2 with both bars' high and low present
\* and confirm.low > anchor.high, and a bearish gap [confirm.high,
\* anchor.low] for every such index with confirm.high < anchor.low, each
\* with bar_index i and the confirm bar's time, and a gap confirmed by the
\* newest bar is not filled.
C11_GapsAreExactlyTheStrictImbalances ==
    /\ Emitted = Expected
    /\ Len(fvgs_all) = Cardinality(Expected)
    /\ \A k \in DOMAIN fvgs_all :
         fvgs_all[k].bar_index = Len(bars_15) - 1 =>
             ~fvgs_all[k].filled /\ fvgs_all[k].filled_at = None

\* A bullish and a bearish gap found in one sequence in which some confirm
\* bar's low only equals its anchor's high and yields no gap.
C11_Witness ==
    /\ \E k \in DOMAIN fvgs_all : fvgs_all[k].type = "bullish"
    /\ \E k \in DOMAIN fvgs_all : fvgs_all[k].type = "bearish"
    /\ \E i \in Eligible :
         /\ Bar15(i).l = Bar15(i - 2).h
         /\ \A k \in DOMAIN fvgs_all : fvgs_all[k].bar_index # i

Whole(i) ==
    /\ Bar15(i).o # None
    /\ Bar15(i).h # None
    /\ Bar15(i).l # None
    /\ Bar15(i).c # None

\* C12 as the claim states it: no gap found has an anchor bar or a confirm
\* bar with a missing open, high, low or close.
C12_BarsWithMissingPriceAreSkipped ==
    \A k \in DOMAIN fvgs_all :
        Whole(fvgs_all[k].bar_index - 2) /\ Whole(fvgs_all[k].bar_index)

\* The later bars that fill gap g.
Fillers(g) ==
    { j \in Indices15 :
        /\ j > g.bar_index
        /\ HasRange(j)
        /\ Bar15(j).l <= g.end
        /\ Bar15(j).h >= g.start }

OpenGaps == { k \in DOMAIN fvgs_all : ~fvgs_all[k].filled }

\* C13: a gap is filled exactly when some later bar with high and low
\* present has low <= the gap's upper bound and high >= its lower bound, and
\* then filled_at is the time of the first such bar; otherwise filled_at is
\* None.  m15_open_fvgs lists exactly the gaps not filled, in order.
C13_FillIsFirstLaterBarTouchingTheGap ==
    /\ \A k \in DOMAIN fvgs_all :
         LET g == fvgs_all[k]
         IN  /\ g.start < g.end
             /\ g.filled <=> Fillers(g) # {}
             /\ g.filled =>
                  /\ g.filled_at \in Fillers(g)
                  /\ \A j \in Fillers(g) : g.filled_at <= j
             /\ ~g.filled => g.filled_at = None
    /\ Len(open_fvgs) = Cardinality(OpenGaps)
    /\ \A k \in OpenGaps :
         open_fvgs[Cardinality({ u \in OpenGaps : u <= k })] = fvgs_all[k]

\* A gap that the bar after it, its high missing, does not fill and a later
\* bar fills by touching its upper bound only.
C13_Witness ==
    \E k \in DOMAIN fvgs_all :
        LET g == fvgs_all[k]
        IN  /\ g.filled
            /\ g.filled_at > g.bar_index + 1
            /\ Bar15(g.bar_index + 1).h = None
            /\ Bar15(g.filled_at).l = g.end

\* C14: when bars are appended every gap found before is found again with
\* the same bounds, and a gap that was filled stays filled with the same
\* filled_at.
C14_AppendingKeepsFills ==
    [][ /\ Len(fvgs_all') >= Len(fvgs_all)
        /\ \A k \in DOMAIN fvgs_all :
             /\ fvgs_all'[k].bar_index = fvgs_all[k].bar_index
             /\ fvgs_all'[k].type = fvgs_all[k].type
             /\ fvgs_all[k].filled => fvgs_all'[k] = fvgs_all[k]
      ]_vars

\* A gap with bars after it, open until the newest bar came and filled by it.
C14_Witness ==
    \E k \in DOMAIN fvgs_all :
        /\ fvgs_all[k].bar_index + 1 < Len(bars_15) - 1
        /\ fvgs_all[k].filled
        /\ fvgs_all[k].filled_at = Len(bars_15) - 1

-----------------------------------------------------------------------------
(* Properties of the indicators.                                           *)

Steps == 0 .. (Len(candles) - 1)

\* The close the indicators see at index i.
Close(i) == IF At(candles, i).c = None THEN 0 ELSE At(candles, i).c

\* Close(lo) + ... + Close(hi)
RECURSIVE Total(_, _)
Total(lo, hi) == IF lo > hi THEN 0 ELSE Close(hi) + Total(lo, hi - 1)

\* x = n / d for a fraction x and whole numbers n and d > 0
Equals(x, n, d) == x # NoValue /\ x.d > 0 /\ x.n * d = n * x.d

\* C15: the sma series is as long as the input, None before index L-1 and
\* from there on the mean of the L closes ending at the index; after every
\* step the loop's running sum is the sum of the last L closes (of all of
\* them while there are fewer than L).
C15_SmaIsTrailingMean ==
    /\ Len(sma_out.out) = Len(candles)
    /\ Len(sma_out.sums) = Len(candles)
    /\ \A i \in Steps :
         /\ i < length - 1 => At(sma_out.out, i) = NoValue
         /\ i >= length - 1 =>
              Equals(At(sma_out.out, i), Total(i - length + 1, i), length)
         /\ At(sma_out.sums, i) = Total(Max(0, i - length + 1), i)

\* A series longer than the window in which a close that has left the
\* window differs from the one that came in.
C15_Witness ==
    /\ length = 2
    /\ Len(candles) >= 4
    /\ Close(1) # Close(3)
    /\ At(sma_out.out, 3) # At(sma_out.out, 2)
    /\ At(sma_out.out, 0) = NoValue

\* C16 as the claim states it: the ema series is None before index L-1, at
\* index L-1 the mean of the first L closes, and at every later index i
\* (close[i] - ema[i-1]) * (2/(L+1)) + ema[i-1].
C16_EmaStartsAtTheSeed ==
    \A i \in Steps :
        /\ i < length - 1 => At(ema_out, i) = NoValue
        /\ i = length - 1 => Equals(At(ema_out, i), Total(0, length - 1), length)
        /\ i > length - 1 =>
             At(ema_out, i) =
                 FAdd(FMul(FSub(Num(Close(i)), At(ema_out, i - 1)), Frac(2, length + 1)),
                      At(ema_out, i - 1))

Gain(i) == IF i = 0 THEN 0 ELSE Max(Close(i) - Close(i - 1), 0)
Loss(i) == IF i = 0 THEN 0 ELSE Max(Close(i - 1) - Close(i), 0)

RECURSIVE TotalGain(_, _)
TotalGain(lo, hi) == IF lo > hi THEN 0 ELSE Gain(hi) + TotalGain(lo, hi - 1)
RECURSIVE TotalLoss(_, _)
TotalLoss(lo, hi) == IF lo > hi THEN 0 ELSE Loss(hi) + TotalLoss(lo, hi - 1)

\* avg1 = (avg0 * (L - 1) + new) / L
Smoothed(avg1, avg0, new) ==
    /\ avg1 # NoValue
    /\ avg0 # NoValue
    /\ avg1.n * avg0.d * length = (avg0.n * (length - 1) + new * avg0.d) * avg1.d

\* C17: the rsi series is None at indices 0..L-1; at index L the average
\* gain and loss are the means of the first L gains and losses; at every
\* later index each average is (avg * (L - 1) + new) / L; the value is 100
\* when the average loss is zero, as it is when no close so far fell, and
\* 100 - 100 / (1 + avgGain / avgLoss) otherwise.
C17_RsiFollowsWilderSmoothing ==
    /\ Len(rsi_out.out) = Len(candles)
    /\ \A i \in Steps :
         LET ag == At(rsi_out.ag, i)
             al == At(rsi_out.al, i)
             v == At(rsi_out.out, i)
         IN  /\ i < length => v = NoValue
             /\ i = length =>
                  /\ Equals(ag, TotalGain(1, length), length)
                  /\ Equals(al, TotalLoss(1, length), length)
             /\ i > length =>
                  /\ Smoothed(ag, At(rsi_out.ag, i - 1), Gain(i))
                  /\ Smoothed(al, At(rsi_out.al, i - 1), Loss(i))
             /\ i >= length =>
                  /\ al.n = 0 => v = Num(100)
                  /\ al.n # 0 =>
                       v = FSub(Num(100),
                                FDiv(Num(100), FAdd(Num(1), FDiv(ag, al))))
                  /\ TotalLoss(1, i) = 0 => v = Num(100)

\* A smoothed index, past the seed, where gains and losses have both
\* occurred and the value is neither 0 nor 100.
C17_Witness ==
    /\ length = 2
    /\ \E i \in Steps :
         /\ i > length
         /\ Gain(i) > 0
         /\ TotalLoss(1, i) > 0
         /\ At(rsi_out.out, i) # Num(100)
         /\ At(rsi_out.out, i) # Num(0)
         /\ At(rsi_out.out, i - 1) # At(rsi_out.out, i)

\* C18: every value of the rsi series that is not None lies in [0, 100].
C18_RsiWithinBounds ==
    \A i \in Steps :
        At(rsi_out.out, i) # NoValue =>
            /\ FLeq(Num(0), At(rsi_out.out, i))
            /\ FLeq(At(rsi_out.out, i), Num(100))

\* A series that reaches 0, reaches 100 and takes a value in between.
C18_Witness ==
    /\ \E i \in Steps : At(rsi_out.out, i) = Num(0)
    /\ \E i \in Steps : At(rsi_out.out, i) = Num(100)
    /\ \E i \in Steps :
         /\ At(rsi_out.out, i) # NoValue
         /\ ~FLeq(At(rsi_out.out, i), Num(0))
         /\ ~FLeq(Num(100), At(rsi_out.out, i))

-----------------------------------------------------------------------------
(* Properties of the VWAP.                                                 *)

Priced(i) ==
    /\ At(candles, i).h # None
    /\ At(candles, i).l # None
    /\ At(candles, i).c # None

Volume(i) == IF At(candles, i).v = None THEN 0 ELSE At(candles, i).v

\* Three times the typical price of a candle with all its prices.
Price3(i) == At(candles, i).h + At(candles, i).l + At(candles, i).c

\* The volume, and three times the price-volume product, summed over the
\* indices of I.
RECURSIVE VolumeOver(_)
VolumeOver(I) ==
    IF I = {} THEN 0
    ELSE LET i == CHOOSE x \in I : TRUE IN Volume(i) + VolumeOver(I \ {i})
RECURSIVE PriceVolume3Over(_)
PriceVolume3Over(I) ==
    IF I = {} THEN 0
    ELSE LET i == CHOOSE x \in I : TRUE
         IN  Price3(i) * Volume(i) + PriceVolume3Over(I \ {i})

\* C19: over candles that all have high, low and close, compute_vwap gives
\* one entry per candle, with typicalPrice = (high + low + close) / 3, a
\* missing volume counted as 0, and vwap the sum of typicalPrice * volume
\* over the candles so far divided by the sum of their volumes, or 0 while
\* that sum is zero; final is the last entry's vwap, or 0 when there is no
\* entry.
C19_VwapIsCumulativeWeightedMean ==
    (\A i \in Steps : Priced(i)) =>
        /\ vwap_out.count = Len(candles)
        /\ Len(vwap_out.series) = Len(candles)
        /\ \A i \in Steps :
             LET e == At(vwap_out.series, i)
                 sofar == 0 .. i
             IN  /\ e.volume = Volume(i)
                 /\ Equals(e.typicalPrice, Price3(i), 3)
                 /\ VolumeOver(sofar) > 0 =>
                      Equals(e.vwap, PriceVolume3Over(sofar), 3 * VolumeOver(sofar))
                 /\ VolumeOver(sofar) = 0 => e.vwap = Num(0)
        /\ vwap_out.final = IF candles = <<>> THEN Num(0)
                            ELSE At(vwap_out.series, Len(candles) - 1).vwap

\* Three candles: the first with its volume missing and reported as 0, the
\* other two traded at different prices, so that the final value lies
\* between their typical prices.
C19_Witness ==
    /\ Len(candles) = 3
    /\ \A i \in Steps : Priced(i)
    /\ At(candles, 0).v = None
    /\ At(vwap_out.series, 0).vwap = Num(0)
    /\ Volume(1) > 0
    /\ Volume(2) > 0
    /\ Price3(1) # Price3(2)
    /\ vwap_out.final # At(vwap_out.series, 1).typicalPrice
    /\ vwap_out.final # At(vwap_out.series, 2).typicalPrice

\* C20 as the claim states it, for the VWAP: a candle with a missing high,
\* low or close contributes nothing, so that final is the value computed
\* from the candles that have them all.
C20_MalformedBarContributesNothing ==
    LET whole == { i \in Steps : Priced(i) }
    IN  VolumeOver(whole) > 0 =>
            Equals(vwap_out.final, PriceVolume3Over(whole), 3 * VolumeOver(whole))

-----------------------------------------------------------------------------
(* Properties of the handlers' answers (checked under SpecWindow).         *)

\* The upstream call that ended the handler's work, when one was made.
LastCall == upstream[Len(upstream)]

\* C22: a bar fetch that fails after its retries, by an HTTP error status or
\* by a network or authentication failure, is answered 502 upstream_failed;
\* a fetch that succeeds with no bars is answered "No bars returned".
C22_FailedFetchIsUpstreamFailure ==
    (upstream # <<>> /\ LastCall.op = "bars") =>
        /\ LastCall.answer \in {"http_error", "net_error"} =>
             resp.status = 502 /\ resp.error = "upstream_failed"
        /\ LastCall.answer = "empty" =>
             resp.status # 502 /\ resp.error = "No bars returned"

\* C24: /api/indicators, closed at the requested end, neither guard nor
\* auto_window given: the request is not rejected, the contract is resolved
\* and bars are fetched for the clipped window, and an answer reports
\* windowAdjustedForClosure = true.
C24_IndicatorsDefaultToAutoWindow ==
    (/\ Resolved /\ InGap(ReqEnd)
     /\ req.handler = "indicators"
     /\ req.guard = Absent /\ req.auto_window = Absent) =>
        LET fridayClose == ReqEnd - InWeek(ReqEnd) + GapOpens
        IN  /\ resp.status # 409
            /\ upstream # <<>>
            /\ eff.reached /\ eff.adjusted
            /\ eff.end = Min(fridayClose, ReqEnd)
            /\ eff.start = Max(eff.end - (ReqEnd - ReqStart), eff.end - 7 * MsPerDay)
            /\ \A i \in BarFetches :
                 /\ upstream[i].start = fmt_iso_z(eff.start)
                 /\ upstream[i].end = fmt_iso_z(eff.end)
                 /\ ~upstream[i].live
            /\ resp.status = 200 =>
                 /\ resp.windowAdjustedForClosure
                 /\ resp.effectiveStart = fmt_iso_z(eff.start)
                 /\ resp.effectiveEnd = fmt_iso_z(eff.end)

\* C24 witness: /api/indicators answered a request without guard and
\* auto_window whose end lies strictly inside the gap, from bars that end at
\* Friday's close.
C24_Witness ==
    /\ Resolved /\ InGap(ReqEnd)
    /\ req.handler = "indicators"
    /\ req.guard = Absent /\ req.auto_window = Absent
    /\ resp.status = 200
    /\ resp.windowAdjustedForClosure
    /\ resp.effectiveEnd # resp.requestedEnd
    /\ BarFetches # {}

\* C29: closed at the requested end, guard off and auto_window false: the
\* request is neither rejected nor clipped; bars are fetched for the
\* requested window and an answer reports the requested window as the
\* effective one with windowAdjustedForClosure = false.
C29_UnguardedClosedWindowIsServedAsAsked ==
    (Resolved /\ InGap(ReqEnd) /\ ~GuardIsOn /\ ~AutoWindowIsOn) =>
        /\ resp.status # 409
        /\ upstream # <<>>
        /\ eff = [reached |-> TRUE, start |-> ReqStart, end |-> ReqEnd,
                  adjusted |-> FALSE]
        /\ \A i \in BarFetches :
             /\ upstream[i].start = fmt_iso_z(ReqStart)
             /\ upstream[i].end = fmt_iso_z(ReqEnd)
        /\ resp.status = 200 =>
             /\ resp.effectiveStart = resp.requestedStart
             /\ resp.effectiveEnd = resp.requestedEnd
             /\ ~resp.windowAdjustedForClosure

\* C29 witness: a window ending inside the gap, sent with guard off and
\* auto_window false, was answered from bars fetched up to its own end.
C29_Witness ==
    /\ Resolved /\ InGap(ReqEnd)
    /\ req.guard = "off" /\ req.auto_window = "false"
    /\ resp.status = 200
    /\ ~resp.windowAdjustedForClosure
    /\ \E i \in BarFetches : upstream[i].end = fmt_iso_z(ReqEnd)

-----------------------------------------------------------------------------
(* Properties of the interval mapping (checked under SpecInterval).        *)

\* The interval vocabulary and the pair each name stands for: the number in
\* front, and second = 1, minute = 2, hour = 3, day = 4, week = 5, month = 6.
Vocabulary ==
    { <<"1s", 1, 1>>, <<"5s", 1, 5>>, <<"15s", 1, 15>>, <<"30s", 1, 30>>,
      <<"1m", 2, 1>>, <<"2m", 2, 2>>, <<"3m", 2, 3>>, <<"5m", 2, 5>>,
      <<"15m", 2, 15>>, <<"30m", 2, 30>>,
      <<"1h", 3, 1>>, <<"2h", 3, 2>>, <<"4h", 3, 4>>,
      <<"1d", 4, 1>>, <<"1w", 5, 1>>, <<"1M", 6, 1>> }

\* An entry point was handed an interval text (not the empty text or a
\* missing parameter, which select a default) and has acted on it.
IntervalServed == bar_request # NoBarRequest /\ interval \notin {Absent, ""}

\* C21: in every entry point an interval of the vocabulary is requested
\* upstream with its own (unit, unitNumber) pair, and any other interval
\* fails as unsupported with no bars requested.
C21_EveryIntervalMapsOrFails ==
    IntervalServed =>
        IF \E v \in Vocabulary : v[1] = interval
        THEN \E v \in Vocabulary :
                /\ v[1] = interval
                /\ bar_request.outcome = "bars"
                /\ bar_request.pair = Pair(v[2], v[3])
        ELSE bar_request.outcome = "unsupported"

-----------------------------------------------------------------------------
(* Properties of _http_post (checked under SpecRetryFair).                 *)

Events == DOMAIN post_log
Posts == { i \in Events : post_log[i].ev = "post" }
Sleeps == { i \in Events : post_log[i].ev = "sleep" }
Failed(i) == ~(post_log[i].got.kind = "response" /\ post_log[i].got.code < 400)

\* The bounds the loop keeps at every moment of one call.
RetryIsBounded ==
    \* at most RETRY_MAX requests, numbered 1, 2, ... in order
    /\ Cardinality(Posts) = attempt /\ attempt <= retry_max
    /\ \A i \in Posts : post_log[i].n = Cardinality({ j \in Posts : j <= i })
    \* a response below 400 is returned at once: it is the last event
    /\ \A i \in Posts :
         ~Failed(i) => /\ i = Len(post_log)
                       /\ post_result = [state |-> "returned", with |-> post_log[i].got]
    /\ post_result.state = "returned" =>
         /\ post_log # <<>>
         /\ ~Failed(Len(post_log))
    \* a sleep of RETRY_BACKOFF * attempt follows a failed attempt, never the last
    /\ \A i \in Sleeps :
         /\ i > 1 /\ (i - 1) \in Posts /\ Failed(i - 1)
         /\ post_log[i].n = post_log[i - 1].n
         /\ post_log[i].n < retry_max
         /\ post_log[i].ms = RETRY_BACKOFF * post_log[i].n
    \* every failure before the last attempt is slept on and retried, of
    \* whatever kind it is
    /\ \A i \in Posts :
         (Failed(i) /\ post_log[i].n < retry_max) =>
             /\ (i + 1) \in Sleeps
             /\ post_result = Looping \/ (i + 2) \in Posts
    \* after RETRY_MAX failures the last failure is raised
    /\ post_result.state = "raised" =>
         /\ Cardinality(Posts) = retry_max
         /\ \A i \in Posts : Failed(i)
         /\ Len(post_log) \in Posts
         /\ post_result.with = exception_of(post_log[Len(post_log)].got)
    /\ (attempt = retry_max /\ \A i \in Posts : Failed(i)) =>
         post_result.state = "raised"

\* C28: for RETRY_MAX >= 1 one call of _http_post issues at most RETRY_MAX
\* requests, returns the first response below 400 without a further request,
\* sleeps RETRY_BACKOFF * attempt only between attempts, retries every kind
\* of failure alike, raises the last failure after RETRY_MAX failures, and
\* comes to an end.
C28_HttpPostRetriesAreBounded ==
    /\ []RetryIsBounded
    /\ <>(post_result # Looping)

\* C28 witness: with RETRY_MAX = 3 a timeout, then a status 500, then a
\* refused connection: two sleeps of 500 and 1000 ms, and the connection
\* error is raised.
C28_Witness ==
    /\ retry_max = 3
    /\ Len(post_log) = 5
    /\ post_log[1].got = Raised("Timeout")
    /\ post_log[2] = [ev |-> "sleep", n |-> 1, ms |-> 500]
    /\ post_log[3].got = Response(500)
    /\ post_log[4] = [ev |-> "sleep", n |-> 2, ms |-> 1000]
    /\ post_log[5].got = Raised("ConnectionError")
    /\ post_result = [state |-> "raised", with |-> Raised("ConnectionError")]

-----------------------------------------------------------------------------
(* Properties of the token cache (checked under SpecAuth).                 *)

\* The threads whose login is under way: posted, and the cache not yet
\* brought up to date with its answer.
LoggingIn == { t \in Threads : pc[t] \in {"login", "token_stored"} }

\* C25: the cache is guarded against concurrent refresh: of the threads
\* that call _auth_token while no valid token is cached at most one sends
\* a login, so no two logins are under way at once.
C25_AtMostOneLoginAtATime == Cardinality(LoggingIn) <= 1

CacheUnchanged ==
    /\ session_token' = session_token
    /\ token_expiry_epoch' = token_expiry_epoch

\* What one step of one call of _auth_token may do to the cache.
AuthTokenStep ==
    /\ \A t \in Threads :
         \* a login is sent only when nothing valid is cached at the call
         /\ (pc[t] = "idle" /\ pc'[t] = "login") =>
              /\ session_token = None \/ time_time >= token_expiry_epoch
              /\ call_now'[t] = time_time
              /\ logins' = logins + 1
              /\ CacheUnchanged
         \* otherwise the cached token is returned as it is
         /\ (pc[t] = "idle" /\ pc'[t] = "returned") =>
              /\ session_token # None /\ time_time < token_expiry_epoch
              /\ ret'[t] = session_token
              /\ logins' = logins
              /\ CacheUnchanged
         /\ pc[t] = "idle" => pc'[t] \in {"idle", "login", "returned"}
         \* a failed login raises and leaves the cache alone
         /\ (pc[t] # "raised" /\ pc'[t] = "raised") =>
              /\ pc[t] = "login"
              /\ ret'[t] = None
              /\ CacheUnchanged
    /\ logins' # logins => \E t \in Threads : pc[t] = "idle" /\ pc'[t] = "login"
    \* the cache changes only with a successful login, to call time + 23.5 h
    /\ session_token' # session_token =>
         \E t \in Threads : /\ pc[t] = "login" /\ pc'[t] = "token_stored"
                            /\ session_token' = login_no[t]
    /\ token_expiry_epoch' # token_expiry_epoch =>
         \E t \in Threads : /\ pc[t] = "token_stored" /\ pc'[t] = "returned"
                            /\ token_expiry_epoch' = call_now[t] + TOKEN_TTL
                            /\ ret'[t] = session_token

\* C26: _auth_token sends a login only when no token is cached or now has
\* reached the cached expiry, and returns the cached token unchanged
\* otherwise; token and expiry change only on a successful login, the
\* expiry to the call's time + 23.5 hours; a login that fails or brings no
\* token raises and leaves both unchanged.
C26_LoginOnlyWhenCacheIsStale == [][AuthTokenStep]_vars

\* C26 witness: the first token, cached until 48, was replaced by a login
\* sent at 48 exactly, and a later call got the second token from the cache.
C26_Witness ==
    /\ logins = 2
    /\ session_token = 2
    /\ token_expiry_epoch = 48 + TOKEN_TTL
    /\ \E t \in Threads :
         /\ pc[t] = "returned"
         /\ login_no[t] = 0
         /\ ret[t] = 2

-----------------------------------------------------------------------------
(* Properties of /api/context/levels (checked under SpecSessions).         *)

\* C23: an asOf that does not parse is rejected as a caller error before any
\* upstream request is made (contract search, login, bar fetch) and before
\* anything is computed.
C23_BadTimeIsRejectedBeforeAnyUpstreamCall ==
    (levels_resp # NoResp /\ levels_req.asOf.kind = "bad") =>
        /\ levels_resp.status \in 400 .. 499
        /\ levels_calls = <<>>
        /\ m15_fetched = <<>>

\* The request was answered with levels; the instant they are as of, its
\* civil day in Chicago, and the boundaries the day gives.
Answered == levels_resp # NoResp /\ levels_resp.status = 200
AsOf == IF levels_req.asOf.kind = "time" THEN levels_req.asOf.t ELSE now
Midnight == date_ct(AsOf)
PriorClose == datetime_ct(Midnight - MsPerDay, 15, 0)
AsianOpens == datetime_ct(Midnight - MsPerDay, 18, 0)
LondonOpens == datetime_ct(Midnight, 2, 0)
LondonCloses == datetime_ct(Midnight, 7, 30)

BarsOf(bs) == { bs[i] : i \in DOMAIN bs }

\* C27: the swings since the prior close are computed over every 15m bar
\* from the previous civil day's 15:00 Chicago time up to asOf: the 15m
\* fetch starts at or before that boundary, and no bar the upstream holds
\* in [prior close, asOf] is missing from the scanned slice.
C27_PrevCloseSliceHoldsEveryBarSinceTheClose ==
    Answered =>
        /\ \A i \in DOMAIN levels_calls :
             (levels_calls[i].op = "bars" /\ levels_calls[i].interval = "15m") =>
                 levels_calls[i].start <= PriorClose
        /\ \A b \in market :
             (b.t # None /\ PriorClose <= b.t /\ b.t <= AsOf) =>
                 b \in BarsOf(since_prev_close)

\* C30: a fetched 15m bar is in a session's slice exactly when its time
\* parses and lies between the session's start and end, both included; a
\* bar stamped 02:00 Chicago time is in both slices and counted in both
\* summaries; a session with no bar is summarised as none.
C30_SessionSliceIsInclusiveOnBothEnds ==
    Answered =>
        /\ \A b \in BarsOf(m15_fetched) :
             /\ b \in BarsOf(asian_15) <=>
                  (b.t # None /\ AsianOpens <= b.t /\ b.t <= LondonOpens)
             /\ b \in BarsOf(london_15) <=>
                  (b.t # None /\ LondonOpens <= b.t /\ b.t <= LondonCloses)
        /\ BarsOf(asian_15) \subseteq BarsOf(m15_fetched)
        /\ BarsOf(london_15) \subseteq BarsOf(m15_fetched)
        /\ m15_sessions.asian.count = Len(asian_15)
        /\ m15_sessions.london.count = Len(london_15)
        /\ asian_15 = <<>> => m15_sessions.asian = NoSummary
        /\ london_15 = <<>> => m15_sessions.london = NoSummary

\* C30 witness: as of Wednesday 08:00 the bar stamped 02:00 is the low of
\* both sessions, the bars stamped 18:00 and 07:30 are counted and the one
\* stamped 07:45 is not, and a bar whose time does not parse is in neither.
C30_Witness ==
    /\ Answered
    /\ AsOf = datetime_ct(Wednesday, 8, 0)
    /\ market = MarketBars
    /\ \E b \in BarsOf(m15_fetched) : b.t = None
    /\ m15_sessions.asian =
         [high |-> 7, high_at |-> datetime_ct(Wednesday, 2, 0),
          low |-> 1, low_at |-> datetime_ct(Wednesday, 2, 0), count |-> 2]
    /\ m15_sessions.london =
         [high |-> 7, high_at |-> datetime_ct(Wednesday, 2, 0),
          low |-> 1, low_at |-> datetime_ct(Wednesday, 2, 0), count |-> 2]

=============================================================================
